---------------------------- MODULE Spec2Model ----------------------------
(***************************************************************************)
(* Netlink socket layer of the OpenFlow reference switch (lib/netlink.c):  *)
(* the process-wide sequence counter, the Netlink PID slot bitmap, message *)
(* headers, nl_sock_send / nl_sock_recv and the reliable request/reply     *)
(* transaction nl_sock_transact.                                           *)
(*                                                                         *)
(* A Netlink message is a record of its nlmsghdr fields, its size in bytes *)
(* (buffer->size), the nlmsgerr error field that follows the header in an  *)
(* NLMSG_ERROR message, and its attributes.  A buffer pointer is a         *)
(* sequence of at most one message: <<>> is the null pointer.              *)
(***************************************************************************)
EXTENDS Integers, Sequences, FiniteSets, TLC

VARIABLES
    unix_pid,       \* getpid(): fixed for the life of the process
    next_seq,       \* static uint32_t next_seq
    avail_sockets,  \* static avail_sockets[]: the set of slot indexes whose bit is set
    socks,          \* live struct nl_sock objects: fd -> [fd, pid]
    msg,            \* the caller's message buffer: a buffer pointer
    last,           \* the most recent call: its result, the datagrams it handed to
                    \* the kernel and the sequence numbers of the headers it built
    built,          \* log of the nlmsg_seq of the headers built, in build order
                    \* (kept by the specifications that observe it)
    number,         \* the caller's cache '*number' of nl_lookup_genl_family
    tx,             \* the activation record of nl_sock_transact
    rxq,            \* the kernel's receive queue of each socket descriptor
    bufp,           \* the buffer the latest nl_sock_recv stored in '*bufp'
    parse           \* a Generic Netlink message, how it came about, and the
                    \* outcome of nl_policy_parse on it
VARIABLES
    tcp,            \* a TCP vconn: its rxbuf, the byte stream of its
                    \* connection, and the outcome of the latest tcp_recv
    vc,             \* the same vconn: whether it is open, its txbuf, the bytes
                    \* its socket has accepted, and the outcome of the latest
                    \* tcp_send, tcp_postpoll or tcp_close
    sig,            \* fatal-signal.c: block_level, saved_signal_mask and the
                    \* signal mask of the process
    dec,            \* a received message and what nl_msg_nlmsgerr made of it
    opn             \* the latest tcp_open, ptcp_open or ptcp_accept: the
                    \* descriptors it left open and what it returned

vars == <<unix_pid, next_seq, avail_sockets, socks, msg, last, built,
          number, tx, rxq, bufp, parse, tcp, vc, sig,
                   dec, opn>>

-----------------------------------------------------------------------------
(* Bounds of the model. *)

\* The calls of fatal_signal_block in one run.
MaxBlocks == 3

\* The descriptors vconn-tcp.c holds open at a time.
MaxFds == 3

\* The hooks the caller registers, and the files registered at a time.
MaxHooks == 1
MaxFiles == 2

\* The messages tcp_send accepts in one run.
MaxSends == 2

\* uint32_t arithmetic is modelled modulo SeqMod (2^32 in the program).
SeqMod == 8
\* MAX_SOCKETS, the number of PID slots (1u << SOCKET_BITS = 1024 in the program).
MAX_SOCKETS == 2
\* Largest number of sockets the message layer is exercised on.
MaxMsgSocks == 1
\* Longest log of built headers.
MaxHist == 3
\* Largest number of ENOBUFS receive failures within one transaction.
MaxEnobufs == 2
\* Largest number of non-matching replies within one transaction.
MaxStray == 2
\* Largest wall-clock reading time(0) returns.
MaxClock == 3
\* Largest number of attributes appended to one message.
MaxAttrs == 1
\* Largest number of datagrams waiting in the receive queues.
MaxQueue == 2
\* Largest number of attributes put into a message that is then parsed.
MaxPuts == 2
\* Largest number of payload bytes of a message parsed as it was received.
MaxRaw == 4
\* Largest number of OpenFlow frames the peer of a TCP vconn sends.
MaxFrames == 2

-----------------------------------------------------------------------------
(* Program constants. *)

PROCESS_BITS == 22
NLMSG_HDRLEN == 16
GENL_HDRLEN == 4
NLA_HDRLEN == 4
NLMSGERR_SIZE == 20
NLMSG_ERROR == 2
GENL_ID_CTRL == 16
NLM_F_REQUEST == 1
NLM_F_ACK == 4
RECV_BUFSIZE == 2048
INT_MIN == -2147483647 - 1

MSG_DONTWAIT == 64

\* sizeof(struct ofp_header)
OFP_HEADER_SIZE == 8
\* fatal-signal.c
MAX_HOOKS == 32
EOF == -1

ENOENT == 2
EINTR == 4
EAGAIN == 11
ENOMEM == 12
EINVAL == 22
EPROTO == 71
ENOBUFS == 105

CTRL_ATTR_FAMILY_ID == 1
CTRL_ATTR_FAMILY_NAME == 2
CTRL_ATTR_MAX == 7
SIZE_MAX == 65535

-----------------------------------------------------------------------------
(* Bit operations on naturals. *)

RECURSIVE Pow2(_)
Pow2(n) == IF n = 0 THEN 1 ELSE 2 * Pow2(n - 1)

RECURSIVE BitAnd(_, _)
BitAnd(a, b) ==
    IF a = 0 \/ b = 0 THEN 0
    ELSE (IF a % 2 = 1 /\ b % 2 = 1 THEN 1 ELSE 0) + 2 * BitAnd(a \div 2, b \div 2)

RECURSIVE BitOr(_, _)
BitOr(a, b) ==
    IF a = 0 THEN b
    ELSE IF b = 0 THEN a
    ELSE (IF a % 2 = 1 \/ b % 2 = 1 THEN 1 ELSE 0) + 2 * BitOr(a \div 2, b \div 2)

RECURSIVE BitXor(_, _)
BitXor(a, b) ==
    IF a = 0 THEN b
    ELSE IF b = 0 THEN a
    ELSE (IF a % 2 # b % 2 THEN 1 ELSE 0) + 2 * BitXor(a \div 2, b \div 2)

NoBuf == <<>>

-----------------------------------------------------------------------------
(* Netlink messages. *)

\* NLMSG_ALIGN / NLA_ALIGN: round up to a multiple of 4.
NLA_ALIGN(n) == ((n + 3) \div 4) * 4

\* A message buffer: the nlmsghdr fields, buffer->size, the nlmsgerr error
\* field behind the header and the attributes behind a genlmsghdr.
Msg(len, type, flags, seq, pid, size, error, attrs) ==
    [nlmsg_len |-> len, nlmsg_type |-> type, nlmsg_flags |-> flags,
     nlmsg_seq |-> seq, nlmsg_pid |-> pid, size |-> size,
     error |-> error, attrs |-> attrs]

\* NLMSG_OK(nlmsghdr, nbytes) as nl_sock_recv uses it.
NLMSG_OK(m, nbytes) ==
    /\ nbytes >= NLMSG_HDRLEN
    /\ m.nlmsg_len >= NLMSG_HDRLEN
    /\ m.nlmsg_len <= nbytes

\* A variant that negates every error field but INT_MIN.
nl_msg_nlmsgerr_negating(m) ==
    IF m.nlmsg_type = NLMSG_ERROR
    THEN [is_error |-> TRUE,
          code |-> IF m.size < NLMSG_HDRLEN + NLMSGERR_SIZE THEN EPROTO
                   ELSE IF m.error > INT_MIN THEN -m.error
                   ELSE EPROTO]
    ELSE [is_error |-> FALSE, code |-> 0]

\* nl_msg_nlmsgerr: [is_error, code].  code is what is stored in *errorp.
nl_msg_nlmsgerr(m) ==
    IF m.nlmsg_type = NLMSG_ERROR
    THEN [is_error |-> TRUE,
          code |-> IF m.size < NLMSG_HDRLEN + NLMSGERR_SIZE THEN EPROTO
                   ELSE IF m.error <= 0 /\ m.error > INT_MIN THEN -m.error
                   ELSE EPROTO]
    ELSE [is_error |-> FALSE, code |-> 0]

-----------------------------------------------------------------------------
(* System calls that may be interrupted. *)

\* do { r = syscall(...) } while (r < 0 && errno == EINTR): 'results' are the
\* outcomes of the successive attempts; the first that is not EINTR is kept.
RECURSIVE RetryEINTR(_)
RetryEINTR(results) ==
    IF Len(results) > 1 /\ Head(results).err = EINTR
    THEN RetryEINTR(Tail(results))
    ELSE Head(results)

\* Outcome of one send() / recvmsg(): err = 0 on success.
SysErr(e) == [err |-> e, data |-> NoBuf]
SysOk == [err |-> 0, data |-> NoBuf]
SysMsg(m) == [err |-> 0, data |-> <<m>>]

\* A datagram on the wire: the socket it left by, the byte count given to
\* send(), and the bytes (the message as it stood at the send() call).
Dgram(fd, m) == [fd |-> fd, nbytes |-> m.size, data |-> m]

\* A variant that sends the message with the nlmsg_len it came with.
nl_sock_send_unfinalized(fd, m, results) ==
    [retval |-> RetryEINTR(results).err,
     msg |-> m,
     sent |-> IF RetryEINTR(results).err = 0 THEN <<Dgram(fd, m)>> ELSE <<>>]

\* A variant that gives the message the sequence number after its own on
\* every send.
nl_sock_send_renumbering(fd, m, results) ==
    LET fin == [m EXCEPT !.nlmsg_len = m.size,
                         !.nlmsg_seq = (m.nlmsg_seq + 1) % SeqMod]
    IN  [retval |-> RetryEINTR(results).err,
         msg |-> fin,
         sent |-> IF RetryEINTR(results).err = 0 THEN <<Dgram(fd, fin)>> ELSE <<>>]

\* nl_sock_send(sock, msg, wait): [retval, msg, sent].  'msg' is the buffer
\* after the call, 'sent' the datagrams put on the wire (none or one).
nl_sock_send(fd, m, results) ==
    LET fin == [m EXCEPT !.nlmsg_len = m.size]
        r == RetryEINTR(results)
    IN  [retval |-> r.err,
         msg |-> fin,
         sent |-> IF r.err = 0 THEN <<Dgram(fd, fin)>> ELSE <<>>]

\* The read size nl_sock_recv ends with for a datagram of 'nbytes' bytes:
\* doubled after every peek that reports MSG_TRUNC.
RECURSIVE RecvBufsize(_, _)
RecvBufsize(nbytes, bufsize) ==
    IF nbytes > bufsize THEN RecvBufsize(nbytes, 2 * bufsize) ELSE bufsize

\* nl_sock_recv(sock, &buf, wait): [retval, buf].
nl_sock_recv(results) ==
    LET r == RetryEINTR(results)
    IN  IF r.err # 0 THEN [retval |-> r.err, buf |-> NoBuf]
        ELSE LET m == r.data[1]
                 bufsize == RecvBufsize(m.size, RECV_BUFSIZE)
                 nbytes == IF m.size <= bufsize THEN m.size ELSE bufsize
             IN  IF ~NLMSG_OK(m, nbytes)
                 THEN [retval |-> EPROTO, buf |-> NoBuf]
                 ELSE [retval |-> 0, buf |-> <<[m EXCEPT !.size = nbytes]>>]

\* nl_sock_recv on a socket whose receive queue is 'queue': [retval, buf,
\* queue].  'peeks' are the outcomes of the recvmsg(MSG_PEEK) calls and
\* 'clears' those of the one-byte recvmsg() calls that take the datagram off
\* the queue; a failure of the latter is logged and changes nothing else.
nl_sock_recv_queued(queue, peeks, clears) ==
    [retval |-> nl_sock_recv(peeks).retval,
     buf |-> nl_sock_recv(peeks).buf,
     queue |-> IF RetryEINTR(peeks).err = 0 /\ RetryEINTR(clears).err = 0
               THEN Tail(queue) ELSE queue]

-----------------------------------------------------------------------------
(* nl_sock_transact. *)

\* The activation record of nl_sock_transact.  pc is the label control is
\* at; seq, retval and replyp are the function's variables; request is the
\* caller's buffer.  The others observe the run: the datagrams sent, the
\* number of nl_sock_recv calls made, how many of them ended with ENOBUFS, how
\* many replies were dropped for their sequence number, the result of the
\* latest nl_sock_send or nl_sock_recv, and the reply the outcome rests on.
TxIdle ==
    [pc |-> "idle", fd |-> 0, request |-> NoBuf, seq |-> 0, sent |-> <<>>,
     recvs |-> 0, enobufs |-> 0, stray |-> 0, err |-> 0, rx |-> NoBuf,
     retval |-> 0, replyp |-> NoBuf]

\* Entry of nl_sock_transact up to the label send: .
transact_call(fd, m) ==
    [TxIdle EXCEPT
        !.pc = "send",
        !.fd = fd,
        !.seq = m.nlmsg_seq,
        !.request = <<[m EXCEPT !.nlmsg_flags = BitOr(m.nlmsg_flags, NLM_F_ACK)]>>]

\* A variant that hands the decoded code back as it is.
transact_error_result_raw(code) == code

\* What nl_sock_transact returns for a matching NLMSG_ERROR reply of code 'code'.
transact_error_result(code) == IF code # EAGAIN THEN code ELSE EPROTO

\* A variant that goes on to the receive whatever nl_sock_send returned.
transact_sent_unchecked(t, r) ==
    [t EXCEPT !.pc = "recv", !.request = <<r.msg>>, !.err = r.retval,
              !.sent = t.sent \o r.sent]

\* The label send: , given the result r of nl_sock_send.
transact_sent(t, r) ==
    IF r.retval # 0
    THEN [t EXCEPT !.pc = "done", !.request = <<r.msg>>, !.err = r.retval,
                   !.retval = r.retval]
    ELSE [t EXCEPT !.pc = "recv", !.request = <<r.msg>>, !.err = 0,
                   !.sent = t.sent \o r.sent]

transact_send(t, results) ==
    transact_sent(t, nl_sock_send(t.fd, t.request[1], results))

\* A variant that takes the first message received, whatever its sequence
\* number.
transact_reply_any_seq(t, reply, e) ==
    IF e.is_error
    THEN [t EXCEPT !.pc = "done", !.rx = <<reply>>,
                   !.retval = transact_error_result(e.code)]
    ELSE [t EXCEPT !.pc = "done", !.rx = <<reply>>,
                   !.retval = 0, !.replyp = <<reply>>]

\* What follows the nl_sock_recv at the label recv: once it has returned 0
\* with the message 'reply'.
transact_reply(t, reply, e) ==
    IF t.seq # reply.nlmsg_seq
    THEN [t EXCEPT !.stray = t.stray + 1]
    ELSE IF e.is_error
    THEN [t EXCEPT !.pc = "done", !.rx = <<reply>>,
                   !.retval = transact_error_result(e.code)]
    ELSE [t EXCEPT !.pc = "done", !.rx = <<reply>>,
                   !.retval = 0, !.replyp = <<reply>>]

\* A variant that waits for the reply again after ENOBUFS without sending
\* the request again.
transact_received_no_resend(t, r) ==
    IF r.retval # 0
    THEN IF r.retval = ENOBUFS
         THEN [t EXCEPT !.enobufs = t.enobufs + 1]
         ELSE [t EXCEPT !.pc = "done", !.retval = r.retval]
    ELSE transact_reply(t, r.buf[1], nl_msg_nlmsgerr(r.buf[1]))

\* The label recv: , given the result r of nl_sock_recv.
transact_received(t, r) ==
    IF r.retval # 0
    THEN IF r.retval = ENOBUFS
         THEN [t EXCEPT !.pc = "send", !.enobufs = t.enobufs + 1]
         ELSE [t EXCEPT !.pc = "done", !.retval = r.retval]
    ELSE transact_reply(t, r.buf[1], nl_msg_nlmsgerr(r.buf[1]))

\* A variant that waits again whatever nl_sock_recv returned.
transact_recv_waiting(t, results) == t

transact_recv(t, results) ==
    transact_received([t EXCEPT !.recvs = t.recvs + 1,
                                !.err = nl_sock_recv(results).retval],
                      nl_sock_recv(results))

-----------------------------------------------------------------------------
(* Netlink PIDs. *)

MAX_PROCESSES == Pow2(PROCESS_BITS)
PROCESS_MASK == MAX_PROCESSES - 1

\* A variant that leaves the slot index out of the PID.
PidOfSlot_no_slot(upid, i) == BitAnd(upid, PROCESS_MASK)

\* (getpid() & PROCESS_MASK) | (i << PROCESS_BITS)
PidOfSlot(upid, i) == BitOr(BitAnd(upid, PROCESS_MASK), i * MAX_PROCESSES)

\* pid >> PROCESS_BITS
SlotOfPid(pid) == pid \div MAX_PROCESSES

\* A variant whose scan runs from the highest slot index downwards.
FirstFreeSlot_highest(avail) ==
    CHOOSE i \in 0..(MAX_SOCKETS - 1) :
        /\ i \notin avail
        /\ \A j \in 0..(MAX_SOCKETS - 1) : j \notin avail => i >= j

\* Lowest slot index whose bit is clear: where the scan of alloc_pid stops.
FirstFreeSlot(avail) ==
    CHOOSE i \in 0..(MAX_SOCKETS - 1) :
        /\ i \notin avail
        /\ \A j \in 0..(MAX_SOCKETS - 1) : j \notin avail => i <= j

\* A variant whose scan wraps around to slot 0 when every slot is taken.
alloc_pid_wrapping(avail, upid) ==
    IF \A i \in 0..(MAX_SOCKETS - 1) : i \in avail
    THEN [retval |-> 0, avail |-> avail, pid |-> PidOfSlot(upid, 0)]
    ELSE [retval |-> 0, avail |-> avail \cup {FirstFreeSlot(avail)},
          pid |-> PidOfSlot(upid, FirstFreeSlot(avail))]

\* alloc_pid(&pid): [retval, avail, pid].
alloc_pid(avail, upid) ==
    IF \A i \in 0..(MAX_SOCKETS - 1) : i \in avail
    THEN [retval |-> ENOBUFS, avail |-> avail, pid |-> 0]
    ELSE LET i == FirstFreeSlot(avail)
         IN  [retval |-> 0, avail |-> avail \cup {i}, pid |-> PidOfSlot(upid, i)]

\* A variant that clears the bit of the lowest slot.
free_pid_lowest(avail, pid) == avail \ {0}

\* free_pid(pid): the bitmap afterwards.
free_pid(avail, pid) == avail \ {SlotOfPid(pid)}

-----------------------------------------------------------------------------
(* nl_sock_create / nl_sock_destroy on the process state                   *)
(* p = [next_seq, avail_sockets, socks].                                   *)

\* The descriptor socket() returns: the lowest one not open (0..2 are taken).
LowestFreeFd(ss) ==
    CHOOSE fd \in 3..(3 + Cardinality(ss)) :
        /\ \A s \in ss : s.fd # fd
        /\ \A g \in 3..(fd - 1) : \E s \in ss : s.fd = g

\* The error label of nl_sock_create: errno, or EINVAL when errno is 0.
CreateErrno(errno) == IF errno = 0 THEN EINVAL ELSE errno

\* if (next_seq == 0) next_seq = getpid() ^ time(0);
SeedSeq(seq, upid, clock) == IF seq = 0 THEN BitXor(upid, clock) % SeqMod ELSE seq

\* a = [multicast_group, so_sndbuf, so_rcvbuf]; env = [clock, fail, errno].
\* Result: the process state afterwards, retval and *sockp (a set of at most
\* one fd).
nl_sock_create(p, upid, a, env) ==
    LET seeded == [p EXCEPT !.next_seq = SeedSeq(p.next_seq, upid, env.clock)]
        fd == LowestFreeFd(p.socks)
        ap == alloc_pid(p.avail_sockets, upid)
        fail(q, rv) == [p |-> q, retval |-> rv, sockp |-> {}]
        fails_after_pid ==
            \/ env.fail = "sndbuf" /\ a.so_sndbuf # 0
            \/ env.fail = "rcvbuf" /\ a.so_rcvbuf # 0
            \/ env.fail = "bind"
            \/ env.fail = "connect"
            \/ env.fail = "membership" /\ a.multicast_group > 32
    IN  IF env.fail = "malloc" THEN fail(seeded, ENOMEM)
        ELSE IF env.fail = "socket" THEN fail(seeded, CreateErrno(env.errno))
        ELSE IF ap.retval # 0 THEN fail(seeded, ap.retval)
        ELSE IF fails_after_pid
        THEN fail([seeded EXCEPT !.avail_sockets = free_pid(ap.avail, ap.pid)],
                  CreateErrno(env.errno))
        ELSE [p |-> [seeded EXCEPT
                        !.avail_sockets = ap.avail,
                        !.socks = p.socks \cup {[fd |-> fd, pid |-> ap.pid]}],
              retval |-> 0,
              sockp |-> {fd}]

\* nl_sock_destroy(sock).
nl_sock_destroy(p, s) ==
    [p EXCEPT !.socks = p.socks \ {s},
              !.avail_sockets = free_pid(p.avail_sockets, s.pid)]

\* nlmsghdr->nlmsg_seq = ++next_seq
NextSeq(seq) == (seq + 1) % SeqMod

\* nl_msg_put_nlmsghdr(msg, sock, expected_payload, type, flags) on an empty
\* buffer: the message built.  The counter afterwards is NextSeq(seq).
nl_msg_put_nlmsghdr(seq, s, type, flags) ==
    Msg(0, type, flags, NextSeq(seq), s.pid, NLMSG_HDRLEN, 0, <<>>)

\* A variant that appends the bytes without Netlink padding.
nl_msg_put_uninit_unpadded(m, size) == [m EXCEPT !.size = m.size + size]

\* nl_msg_put_uninit(msg, size): the buffer size afterwards.
nl_msg_put_uninit(m, size) == [m EXCEPT !.size = m.size + NLA_ALIGN(size)]

\* nl_msg_put_genlmsghdr: the nlmsghdr followed by a genlmsghdr.
nl_msg_put_genlmsghdr(seq, s, family, flags) ==
    nl_msg_put_uninit(nl_msg_put_nlmsghdr(seq, s, family, flags), GENL_HDRLEN)

\* The object representation of a 16-bit value of the host, and back.  The
\* host is taken to be little-endian; the program copies representations
\* and never converts them.
U16Repr(v) == <<v % 256, (v \div 256) % 256>>
HostU16(bytes) == bytes[1] + 256 * bytes[2]

Zeros(n) == [i \in 1..n |-> 0]

\* strlen(s) of a sequence of bytes that holds a NUL.
strlen(s) == (CHOOSE i \in 1..Len(s) : s[i] = 0 /\ \A j \in 1..(i - 1) : s[j] # 0) - 1

\* A variant that stores the aligned length in nla_len.
nl_msg_put_unspec_aligned_len(m, type, data, size) ==
    LET total_size == NLA_HDRLEN + size
        r == nl_msg_put_uninit(m, total_size)
    IN  [r EXCEPT !.attrs = m.attrs \o U16Repr(NLA_ALIGN(total_size))
                               \o U16Repr(type) \o SubSeq(data, 1, size)
                               \o Zeros(r.size - m.size - total_size)]

\* nl_msg_put_unspec(msg, type, data, size): appends one attribute, its
\* nlattr header, the first 'size' bytes of 'data' and the padding.
nl_msg_put_unspec(m, type, data, size) ==
    LET total_size == NLA_HDRLEN + size
        r == nl_msg_put_uninit(m, total_size)
    IN  [r EXCEPT !.attrs = m.attrs \o U16Repr(total_size) \o U16Repr(type)
                               \o SubSeq(data, 1, size)
                               \o Zeros(r.size - m.size - total_size)]

\* nl_msg_put_flag, nl_msg_put_u8 .. nl_msg_put_u64: 'value' is the object
\* representation of the argument.  nl_msg_put_string: 'value' is the
\* string with its terminating NUL.
nl_msg_put_flag(m, type) == nl_msg_put_unspec(m, type, <<>>, 0)
nl_msg_put_u8(m, type, value) == nl_msg_put_unspec(m, type, value, 1)
nl_msg_put_u16(m, type, value) == nl_msg_put_unspec(m, type, value, 2)
nl_msg_put_u32(m, type, value) == nl_msg_put_unspec(m, type, value, 4)
nl_msg_put_u64(m, type, value) == nl_msg_put_unspec(m, type, value, 8)
nl_msg_put_string(m, type, value) ==
    nl_msg_put_unspec(m, type, value, strlen(value) + 1)

-----------------------------------------------------------------------------
(* nl_policy_parse over the bytes of a message. *)

\* A policy entry.  type is one of "NO_ATTR", "UNSPEC", "U8", "U16", "U32",
\* "U64", "STRING", "FLAG", "NESTED".
Policy(type) == [type |-> type, min_len |-> 0, max_len |-> 0, optional |-> FALSE]

\* attr_len_range[type]
attr_len_range(type) ==
    CASE type = "U8" -> <<1, 1>>
      [] type = "U16" -> <<2, 2>>
      [] type = "U32" -> <<4, 4>>
      [] type = "U64" -> <<8, 8>>
      [] type = "STRING" -> <<1, SIZE_MAX>>
      [] type = "NESTED" -> <<NLMSG_HDRLEN, SIZE_MAX>>
      [] OTHER -> <<0, SIZE_MAX>>

\* The bytes of buffer m from offset NLMSG_HDRLEN + GENL_HDRLEN to its tail.
\* (m.attrs are the last bytes of the buffer.)
GenlPayload(m) ==
    SubSeq(m.attrs,
           NLMSG_HDRLEN + GENL_HDRLEN - (m.size - Len(m.attrs)) + 1, Len(m.attrs))

\* The byte at offset o of the payload b.  An offset at or past the tail is
\* outside the buffer's bytes: what is read there is 'beyond', whatever the
\* memory behind the tail holds.
ByteAt(b, beyond, o) == IF o < Len(b) THEN b[o + 1] ELSE beyond[o - Len(b) + 1]

U16At(b, beyond, o) == ByteAt(b, beyond, o) + 256 * ByteAt(b, beyond, o + 1)

\* The outcome of nl_policy_parse: ok is the value returned, attrs[i] the
\* offset of the attribute stored in attrs[i], oob whether a byte outside
\* the payload was read, aborted whether an assertion failed.
ParseOut(ok, attrs, oob, aborted) ==
    [ok |-> ok, attrs |-> attrs, oob |-> oob, aborted |-> aborted]

\* memchr(nla + 1, '\0', len - 1) != NULL for the attribute at offset o.
HasEarlierNul(b, beyond, o, len) ==
    \E k \in 0..(len - 2) : ByteAt(b, beyond, o + NLA_HDRLEN + k) = 0

\* A variant that keeps the attribute stored first.
policy_store_first(attrs, type, o) ==
    IF attrs[type] = NoBuf THEN [attrs EXCEPT ![type] = <<o>>] ELSE attrs

\* attrs[type] = nla, nla being the attribute at offset o.
policy_store(attrs, type, o) == [attrs EXCEPT ![type] = <<o>>]

\* The while loop of nl_policy_parse with p at offset o of the payload, the
\* attrs[] filled so far and the count of required attributes still missing.
RECURSIVE PolicyWalk(_, _, _, _, _, _, _)
PolicyWalk(b, beyond, o, policy, attrs, n_required, oob) ==
    IF o >= Len(b) THEN ParseOut(n_required = 0, attrs, oob, FALSE)
    ELSE LET nla_len == U16At(b, beyond, o)
             oob1 == oob \/ o + 1 >= Len(b)
             len == nla_len - NLA_HDRLEN
             type == U16At(b, beyond, o + 2)
             oob2 == oob1 \/ o + 3 >= Len(b)
         IN  IF nla_len < NLA_HDRLEN THEN ParseOut(FALSE, attrs, oob1, FALSE)
             ELSE IF NLA_ALIGN(len) > Len(b) - o
             THEN ParseOut(FALSE, attrs, oob1, FALSE)
             ELSE IF type \in DOMAIN policy /\ policy[type].type # "NO_ATTR"
             THEN LET pol == policy[type]
                      min_len == IF pol.min_len # 0 THEN pol.min_len
                                 ELSE attr_len_range(pol.type)[1]
                      max_len == IF pol.max_len # 0 THEN pol.max_len
                                 ELSE attr_len_range(pol.type)[2]
                      oob3 == oob2 \/ (pol.type = "STRING" /\ o + nla_len - 1 >= Len(b))
                  IN  IF len < min_len \/ len > max_len
                      THEN ParseOut(FALSE, attrs, oob2, FALSE)
                      ELSE IF pol.type = "STRING"
                              /\ ByteAt(b, beyond, o + nla_len - 1) # 0
                      THEN ParseOut(FALSE, attrs, oob3, FALSE)
                      ELSE IF pol.type = "STRING" /\ HasEarlierNul(b, beyond, o, len)
                      THEN ParseOut(FALSE, attrs, oob3, FALSE)
                      ELSE IF ~pol.optional /\ attrs[type] = NoBuf /\ n_required = 0
                      THEN ParseOut(FALSE, attrs, oob3, TRUE)
                      ELSE PolicyWalk(b, beyond, o + NLA_ALIGN(nla_len), policy,
                                      policy_store(attrs, type, o),
                                      IF ~pol.optional /\ attrs[type] = NoBuf
                                      THEN n_required - 1 ELSE n_required,
                                      oob3)
             ELSE PolicyWalk(b, beyond, o + NLA_ALIGN(nla_len), policy, attrs,
                             n_required, oob2)

\* nl_policy_parse(msg, policy, attrs, n_attrs): ParseOut.
nl_policy_parse(m, policy, beyond) ==
    LET none == [i \in DOMAIN policy |-> NoBuf]
        required == {i \in DOMAIN policy :
                        /\ policy[i].type # "NO_ATTR"
                        /\ policy[i].type # "FLAG"
                        /\ ~policy[i].optional}
    IN  IF m.size < NLMSG_HDRLEN + GENL_HDRLEN THEN ParseOut(FALSE, none, FALSE, FALSE)
        ELSE PolicyWalk(GenlPayload(m), beyond, 0, policy, none,
                        Cardinality(required), FALSE)

\* nl_attr_get_size(nla) for the attribute at offset o of payload b.
nl_attr_get_size(b, o) == HostU16(SubSeq(b, o + 1, o + 2)) - NLA_HDRLEN

\* nl_attr_get_unspec(nla, size): the first 'size' bytes of the payload of
\* the attribute at offset o, which nl_attr_get_u8 .. nl_attr_get_u64 return
\* as a value of their type.
nl_attr_get_unspec(b, o, size) == SubSeq(b, o + NLA_HDRLEN + 1, o + NLA_HDRLEN + size)

nl_attr_get_u16(b, o) == HostU16(nl_attr_get_unspec(b, o, 2))

\* nl_attr_get_string(nla): the bytes from the start of the payload up to
\* the first NUL and that NUL.
nl_attr_get_string(b, o) ==
    LET payload == nl_attr_get_unspec(b, o, nl_attr_get_size(b, o))
    IN  SubSeq(payload, 1, strlen(payload) + 1)

\* static const struct nl_policy family_policy[CTRL_ATTR_MAX + 1]
family_policy ==
    [i \in 0..CTRL_ATTR_MAX |->
        IF i = CTRL_ATTR_FAMILY_ID THEN Policy("U16") ELSE Policy("NO_ATTR")]

-----------------------------------------------------------------------------
(* The whole of nl_sock_transact against a scripted kernel. *)

\* 'script' holds the outcomes of the system calls the transaction makes, one
\* entry for each nl_sock_send and nl_sock_recv in the order they are made.
RECURSIVE transact_run(_, _)
transact_run(t, script) ==
    IF t.pc = "done" \/ script = <<>> THEN t
    ELSE transact_run(IF t.pc = "send" THEN transact_send(t, Head(script))
                      ELSE transact_recv(t, Head(script)),
                      Tail(script))

\* nl_sock_transact(sock, request, &reply) with the kernel's answers 'script'.
nl_sock_transact(fd, m, script) == transact_run(transact_call(fd, m), script)

\* A kernel that drops the reply k times, then lets the send end as 'snd' and
\* the receive as 'rcv'.
RECURSIVE Script(_, _, _)
Script(k, snd, rcv) ==
    IF k = 0 THEN <<snd, rcv>>
    ELSE <<(<<SysOk>>), (<<SysErr(ENOBUFS)>>)>> \o Script(k - 1, snd, rcv)

-----------------------------------------------------------------------------
(* nl_lookup_genl_family. *)

\* An NLMSG_ERROR message from the kernel: an ACK (e = 0) or a NAK.
ErrorReply(seq, pid, e) ==
    Msg(NLMSG_HDRLEN + NLMSGERR_SIZE, NLMSG_ERROR, 0, seq, pid,
        NLMSG_HDRLEN + NLMSGERR_SIZE, e, <<>>)

\* A Generic Netlink message from the kernel with attributes 'as'.
GenlReply(seq, pid, as) ==
    Msg(NLMSG_HDRLEN + GENL_HDRLEN + Len(as), GENL_ID_CTRL, 0, seq, pid,
        NLMSG_HDRLEN + GENL_HDRLEN + Len(as), 0, as)

\* The bytes of an attribute that carries the 16-bit, or the 32-bit, value v.
U16Attr(type, v) ==
    U16Repr(NLA_HDRLEN + 2) \o U16Repr(type) \o U16Repr(v) \o Zeros(2)
U32Attr(type, v) ==
    U16Repr(NLA_HDRLEN + 4) \o U16Repr(type) \o U16Repr(v) \o Zeros(2)

\* What the kernel answers to the CTRL_CMD_GETFAMILY request 'req':
\* the outcomes of the recvmsg() calls of one nl_sock_recv.
LookupAnswer(ans, req) ==
    CASE ans.kind = "family" ->
            <<SysMsg(GenlReply(req.nlmsg_seq, req.nlmsg_pid,
                               U16Attr(CTRL_ATTR_FAMILY_ID, ans.id)))>>
      [] ans.kind = "noattr" ->
            <<SysMsg(GenlReply(req.nlmsg_seq, req.nlmsg_pid, <<>>))>>
      [] ans.kind = "badlen" ->
            <<SysMsg(GenlReply(req.nlmsg_seq, req.nlmsg_pid,
                               U32Attr(CTRL_ATTR_FAMILY_ID, ans.id)))>>
      [] ans.kind = "error" ->
            <<SysMsg(ErrorReply(req.nlmsg_seq, req.nlmsg_pid, ans.id))>>
      [] OTHER -> <<SysErr(ENOMEM)>>

\* do_lookup_genl_family(name) with the environment
\* env = [create, k, snd, ans, name].
\* Result: [p, result, sent, built, crashed]: the process state afterwards,
\* the value returned, the datagrams sent, the sequence numbers of the
\* headers built, and whether the process died on a null reply.
LookupOut(q, res, sent, blt, dead) ==
    [p |-> q, result |-> res, sent |-> sent, built |-> blt, crashed |-> dead]

\* do_lookup_genl_family once the socket exists: c is the result of
\* nl_sock_create.
LookupOnSocket(c, env) ==
    LET sock == CHOOSE s \in c.p.socks : s.fd \in c.sockp
        hdr == nl_msg_put_genlmsghdr(c.p.next_seq, sock, GENL_ID_CTRL, NLM_F_REQUEST)
        request == nl_msg_put_string(hdr, CTRL_ATTR_FAMILY_NAME, env.name)
        q == [c.p EXCEPT !.next_seq = NextSeq(c.p.next_seq)]
        closed == nl_sock_destroy(q, sock)
        blt == <<request.nlmsg_seq>>
        after(t) ==
            IF t.retval # 0 THEN LookupOut(closed, -t.retval, t.sent, blt, FALSE)
            ELSE IF t.replyp = NoBuf THEN LookupOut(q, 0, t.sent, blt, TRUE)
            ELSE LET parsed == nl_policy_parse(t.replyp[1], family_policy,
                                               Zeros(NLA_HDRLEN))
                     id == nl_attr_get_u16(GenlPayload(t.replyp[1]),
                                           parsed.attrs[CTRL_ATTR_FAMILY_ID][1])
                 IN  IF ~parsed.ok THEN LookupOut(closed, -EPROTO, t.sent, blt, FALSE)
                     ELSE LookupOut(closed, IF id = 0 THEN -EPROTO ELSE id,
                                    t.sent, blt, FALSE)
    IN  CHOOSE o \in {after(t) :
                        t \in {nl_sock_transact(sock.fd, request,
                                  Script(env.k, env.snd, LookupAnswer(env.ans, request)))}} :
            TRUE

do_lookup_genl_family(p, upid, env) ==
    CHOOSE o \in
        {IF c.retval # 0 THEN LookupOut(c.p, -c.retval, <<>>, <<>>, FALSE)
         ELSE LookupOnSocket(c, env) :
            c \in {nl_sock_create(p, upid,
                       [multicast_group |-> 0, so_sndbuf |-> 0, so_rcvbuf |-> 0],
                       env.create)}} : TRUE

-----------------------------------------------------------------------------
(* The process: its state and the calls of the socket interface. *)

UnixPids == {1, 4194303}

\* A call, its return value, where the environment failed it, the socket it
\* was about, the datagrams it sent and the nlmsg_seq of the headers it built.
Last(op, retval, fail, sock, out, blt) ==
    [op |-> op, retval |-> retval, fail |-> fail, sock |-> sock,
     out |-> out, built |-> blt]

-----------------------------------------------------------------------------
(* tcp_recv of a TCP vconn. *)

\* ntohs on the host, which stores 16-bit values low byte first.
ntohs(v) == (v % 256) * 256 + v \div 256

\* ntohs(oh->length) of the ofp_header at the start of the bytes rx: its
\* length member is the third and fourth byte.
OfpLength(rx) == ntohs(HostU16(SubSeq(rx, 3, 4)))

Min(a, b) == IF a < b THEN a ELSE b

\* A variant that starts every call with a new buffer.
tcp_rxbuf_fresh(rxbuf) == <<>>

\* tcp->rxbuf as tcp_recv uses it: a new, empty buffer if there is none.
tcp_rxbuf(rxbuf) == IF rxbuf = NoBuf THEN <<>> ELSE rxbuf[1]

\* A variant that reads on behind a header whose length is too short.
tcp_want_bytes_lenient(rx) ==
    IF OFP_HEADER_SIZE > Len(rx)
    THEN [err |-> 0, want |-> OFP_HEADER_SIZE - Len(rx)]
    ELSE IF OfpLength(rx) < OFP_HEADER_SIZE
    THEN [err |-> 0, want |-> 1]
    ELSE [err |-> 0, want |-> OfpLength(rx) - Len(rx)]

\* The bytes tcp_recv wants next, or the error it returns for a header whose
\* length is too short.
tcp_want_bytes(rx) ==
    IF OFP_HEADER_SIZE > Len(rx)
    THEN [err |-> 0, want |-> OFP_HEADER_SIZE - Len(rx)]
    ELSE IF OfpLength(rx) < OFP_HEADER_SIZE
    THEN [err |-> EPROTO, want |-> 0]
    ELSE [err |-> 0, want |-> OfpLength(rx) - Len(rx)]

\* A variant that takes any read that returned bytes for a full one.
tcp_read_full_any(retval, want_bytes) == TRUE

\* retval == want_bytes
tcp_read_full(retval, want_bytes) == retval = want_bytes

\* read(tcp->fd, buffer_tail(rx), want_bytes) on a non-blocking socket of
\* which the bytes 'rest' are still to be read and of which 'plan' bytes
\* have arrived: [retval, errno, data].  No byte is asked for, or the peer
\* has closed and all was read: 0.  Nothing has arrived: EAGAIN.  A
\* negative plan is a read() that fails with the errno -plan.
tcp_read(rest, closed, want_bytes, plan) ==
    IF plan < 0
    THEN [retval |-> -1, errno |-> -plan, data |-> <<>>]
    ELSE IF want_bytes = 0 \/ (rest = <<>> /\ closed)
    THEN [retval |-> 0, errno |-> 0, data |-> <<>>]
    ELSE IF plan = 0 \/ rest = <<>>
    THEN [retval |-> -1, errno |-> EAGAIN, data |-> <<>>]
    ELSE [retval |-> Min(want_bytes, Min(plan, Len(rest))), errno |-> 0,
          data |-> SubSeq(rest, 1, Min(want_bytes, Min(plan, Len(rest))))]

\* A variant that takes every end of file for the end of the stream.
tcp_eof_result_always_eof(size) == EOF

\* rx->size ? EPROTO : EOF
tcp_eof_result(size) == IF size # 0 THEN EPROTO ELSE EOF

\* The result of tcp_recv: the value returned, *bufferp, tcp->rxbuf and the
\* stream afterwards, and the number of read() calls made.
TcpOut(retval, bufferp, rxbuf, rest, nreads) ==
    [retval |-> retval, bufferp |-> bufferp, rxbuf |-> rxbuf, rest |-> rest,
     nreads |-> nreads]

\* tcp_recv from the label again: on, with rx the bytes of tcp->rxbuf.
\* 'plans' tells for each read() in turn how many bytes have arrived.
RECURSIVE tcp_recv_again(_, _, _, _, _)
tcp_recv_again(rx, rest, closed, plans, nreads) ==
    LET w == tcp_want_bytes(rx)
        r == tcp_read(rest, closed, w.want,
                      IF plans = <<>> THEN 0 ELSE Head(plans))
        rx2 == rx \o r.data
        rest2 == SubSeq(rest, Len(r.data) + 1, Len(rest))
    IN  IF w.err # 0 THEN TcpOut(w.err, NoBuf, <<rx>>, rest, nreads)
        ELSE IF r.retval > 0
        THEN IF tcp_read_full(r.retval, w.want)
             THEN IF Len(rx2) > OFP_HEADER_SIZE
                  THEN TcpOut(0, <<rx2>>, NoBuf, rest2, nreads + 1)
                  ELSE tcp_recv_again(rx2, rest2, closed,
                                      IF plans = <<>> THEN plans ELSE Tail(plans),
                                      nreads + 1)
             ELSE TcpOut(EAGAIN, NoBuf, <<rx2>>, rest2, nreads + 1)
        ELSE IF r.retval = 0
        THEN TcpOut(tcp_eof_result(Len(rx)), NoBuf, <<rx>>, rest, nreads + 1)
        ELSE TcpOut(r.errno, NoBuf, <<rx>>, rest, nreads + 1)

\* tcp_recv(vconn, &bufferp)
tcp_recv(rxbuf, rest, closed, plans) ==
    tcp_recv_again(tcp_rxbuf(rxbuf), rest, closed, plans, 0)

\* A TCP vconn just opened: no rxbuf, nothing sent by the peer.  frames are
\* the frames the peer has sent, got the buffers tcp_recv has returned,
\* plans the arrival of bytes during the latest tcp_recv, calls whether
\* tcp_recv has been called, cut whether the peer closed within a frame.
TcpIdle ==
    [rxbuf |-> NoBuf, rest |-> <<>>, closed |-> FALSE, cut |-> FALSE,
     frames |-> <<>>,
     got |-> <<>>, out |-> TcpOut(0, NoBuf, NoBuf, <<>>, 0), plans |-> <<>>,
     calls |-> FALSE]

\* The frame the peer sends as its idx-th: an ofp_header that declares
\* 'length' bytes and the payload that a well-formed frame of that length
\* has.
Frame(length, idx) ==
    <<1, idx, length \div 256, length % 256, 0, 0, 0, idx>>
    \o [i \in 1..(length - OFP_HEADER_SIZE) |-> 100 + 10 * idx + i]

\* The lengths of the frames the peer sends: too short, without payload,
\* with payload.
FrameLengths ==
    {OFP_HEADER_SIZE - 1, OFP_HEADER_SIZE, OFP_HEADER_SIZE + 1, OFP_HEADER_SIZE + 3}

\* The peer sends a frame.
PeerSend(length) ==
    /\ ~tcp.closed
    /\ Len(tcp.frames) < MaxFrames
    /\ \E f \in {Frame(length, Len(tcp.frames) + 1)} :
          tcp' = [tcp EXCEPT !.frames = Append(@, f), !.rest = @ \o f]
    /\ UNCHANGED <<unix_pid, next_seq, avail_sockets, socks, msg, last, built,
                   number, tx, rxq, bufp, parse, vc, sig,
                   dec, opn>>

\* The peer sends the first k bytes of a frame with payload and closes the
\* connection.
PeerSendPart(k) ==
    /\ ~tcp.closed
    /\ Len(tcp.frames) < MaxFrames
    /\ \E f \in {SubSeq(Frame(OFP_HEADER_SIZE + 3, Len(tcp.frames) + 1), 1, k)} :
          tcp' = [tcp EXCEPT !.frames = Append(@, f), !.rest = @ \o f,
                             !.closed = TRUE, !.cut = TRUE]
    /\ UNCHANGED <<unix_pid, next_seq, avail_sockets, socks, msg, last, built,
                   number, tx, rxq, bufp, parse, vc, sig,
                   dec, opn>>

\* The peer closes the connection.
PeerClose ==
    /\ ~tcp.closed
    /\ tcp' = [tcp EXCEPT !.closed = TRUE]
    /\ UNCHANGED <<unix_pid, next_seq, avail_sockets, socks, msg, last, built,
                   number, tx, rxq, bufp, parse, vc, sig,
                   dec, opn>>

\* How many bytes have arrived at a read(): none, one, three, or all; or
\* the read() is interrupted by a signal.
ReadPlans == {0, 1, 3, OFP_HEADER_SIZE + OFP_HEADER_SIZE, -EINTR}

\* tcp_recv(vconn, &bufferp)
TcpRecv(plans) ==
    /\ vc.open
    /\ \E o \in {tcp_recv(tcp.rxbuf, tcp.rest, tcp.closed, plans)} :
          tcp' = [tcp EXCEPT !.rxbuf = o.rxbuf, !.rest = o.rest,
                             !.got = @ \o o.bufferp, !.out = o,
                             !.plans = plans, !.calls = TRUE]
    /\ UNCHANGED <<unix_pid, next_seq, avail_sockets, socks, msg, last, built,
                   number, tx, rxq, bufp, parse, vc, sig,
                   dec, opn>>

\* buffer_pull(b, size): the buffer without its first size bytes.
buffer_pull(b, size) == SubSeq(b, size + 1, Len(b))

\* write(tcp->fd, data, size) when the socket has room for plan bytes:
\* [retval, errno, data], data being the bytes the socket accepted.  A
\* negative plan is a write() that fails with the errno -plan.
tcp_write(data, plan) ==
    IF plan < 0
    THEN [retval |-> -1, errno |-> -plan, data |-> <<>>]
    ELSE [retval |-> Min(plan, Len(data)), errno |-> 0,
          data |-> SubSeq(data, 1, Min(plan, Len(data)))]

\* The outcome of a call on the vconn: the value returned, '*revents', the
\* bytes the socket accepted during the call, the number of write() calls,
\* and the buffer of the caller if it is still the caller's.
VcOut(op, retval, revents, written, nwrites, buffer) ==
    [op |-> op, retval |-> retval, revents |-> revents, written |-> written,
     nwrites |-> nwrites, buffer |-> buffer]

\* The result of tcp_send: txbuf after the call, and the outcome.
SendOut(txbuf, retval, w, nwrites, buffer) ==
    [txbuf |-> txbuf, out |-> VcOut("send", retval, {}, w, nwrites, buffer)]

\* A variant that writes whether or not a message is staged.
tcp_send_unchecked(txbuf, buffer, plan) ==
    LET w == tcp_write(buffer, plan) IN
    IF w.retval = Len(buffer)
    THEN SendOut(NoBuf, 0, w.data, 1, NoBuf)
    ELSE IF w.retval >= 0 \/ w.errno = EAGAIN
    THEN SendOut(<<IF w.retval > 0 THEN buffer_pull(buffer, w.retval)
                                   ELSE buffer>>, 0, w.data, 1, NoBuf)
    ELSE SendOut(txbuf, w.errno, w.data, 1, <<buffer>>)

\* A variant that stages the whole message after a short write.
tcp_send_unpulled(txbuf, buffer, plan) ==
    IF txbuf # NoBuf
    THEN SendOut(txbuf, EAGAIN, <<>>, 0, <<buffer>>)
    ELSE LET w == tcp_write(buffer, plan) IN
         IF w.retval = Len(buffer)
         THEN SendOut(NoBuf, 0, w.data, 1, NoBuf)
         ELSE IF w.retval >= 0 \/ w.errno = EAGAIN
         THEN SendOut(<<buffer>>, 0, w.data, 1, NoBuf)
         ELSE SendOut(NoBuf, w.errno, w.data, 1, <<buffer>>)

\* tcp_send(vconn, buffer), the socket having room for plan bytes.
tcp_send(txbuf, buffer, plan) ==
    IF txbuf # NoBuf
    THEN SendOut(txbuf, EAGAIN, <<>>, 0, <<buffer>>)
    ELSE LET w == tcp_write(buffer, plan) IN
         IF w.retval = Len(buffer)
         THEN SendOut(NoBuf, 0, w.data, 1, NoBuf)
         ELSE IF w.retval >= 0 \/ w.errno = EAGAIN
         THEN SendOut(<<IF w.retval > 0 THEN buffer_pull(buffer, w.retval)
                                        ELSE buffer>>, 0, w.data, 1, NoBuf)
         ELSE SendOut(NoBuf, w.errno, w.data, 1, <<buffer>>)

\* The result of tcp_postpoll: txbuf after the call, and the outcome.
PollOut(txbuf, revents, w, nwrites) ==
    [txbuf |-> txbuf, out |-> VcOut("postpoll", 0, revents, w, nwrites, NoBuf)]

\* A variant that releases txbuf after any write that made progress.
tcp_postpoll_dropping(txbuf, revents, plan) ==
    IF "POLLOUT" \in revents /\ txbuf # NoBuf
    THEN LET w == tcp_write(txbuf[1], plan) IN
         IF w.retval < 0
         THEN PollOut(txbuf,
                      (IF w.errno # EAGAIN THEN revents \cup {"POLLERR"}
                                           ELSE revents) \ {"POLLOUT"},
                      w.data, 1)
         ELSE IF w.retval > 0
         THEN PollOut(NoBuf, revents, w.data, 1)
         ELSE PollOut(txbuf, revents \ {"POLLOUT"}, w.data, 1)
    ELSE PollOut(txbuf, revents, <<>>, 0)

\* A variant that leaves POLLOUT in '*revents'.
tcp_postpoll_keeping_pollout(txbuf, revents, plan) ==
    IF "POLLOUT" \in revents /\ txbuf # NoBuf
    THEN LET w == tcp_write(txbuf[1], plan) IN
         IF w.retval < 0
         THEN PollOut(txbuf,
                      IF w.errno # EAGAIN THEN revents \cup {"POLLERR"}
                                          ELSE revents,
                      w.data, 1)
         ELSE IF w.retval > 0
         THEN IF Len(buffer_pull(txbuf[1], w.retval)) = 0
              THEN PollOut(NoBuf, revents, w.data, 1)
              ELSE PollOut(<<buffer_pull(txbuf[1], w.retval)>>, revents,
                           w.data, 1)
         ELSE PollOut(txbuf, revents, w.data, 1)
    ELSE PollOut(txbuf, revents, <<>>, 0)

\* A variant that stops writing the staged message before its last byte.
tcp_postpoll_stalling(txbuf, revents, plan) ==
    IF "POLLOUT" \in revents /\ txbuf # NoBuf
    THEN LET w == tcp_write(txbuf[1],
                            IF plan < Len(txbuf[1]) THEN plan
                            ELSE Len(txbuf[1]) - 1) IN
         IF w.retval < 0
         THEN PollOut(txbuf,
                      (IF w.errno # EAGAIN THEN revents \cup {"POLLERR"}
                                           ELSE revents) \ {"POLLOUT"},
                      w.data, 1)
         ELSE IF w.retval > 0
         THEN PollOut(<<buffer_pull(txbuf[1], w.retval)>>,
                      revents \ {"POLLOUT"}, w.data, 1)
         ELSE PollOut(txbuf, revents \ {"POLLOUT"}, w.data, 1)
    ELSE PollOut(txbuf, revents, <<>>, 0)

\* tcp_postpoll(vconn, &revents), the socket having room for plan bytes.
tcp_postpoll(txbuf, revents, plan) ==
    IF "POLLOUT" \in revents /\ txbuf # NoBuf
    THEN LET w == tcp_write(txbuf[1], plan) IN
         IF w.retval < 0
         THEN PollOut(txbuf,
                      (IF w.errno # EAGAIN THEN revents \cup {"POLLERR"}
                                           ELSE revents) \ {"POLLOUT"},
                      w.data, 1)
         ELSE IF w.retval > 0
         THEN IF Len(buffer_pull(txbuf[1], w.retval)) = 0
              THEN PollOut(NoBuf, revents, w.data, 1)
              ELSE PollOut(<<buffer_pull(txbuf[1], w.retval)>>,
                           revents \ {"POLLOUT"}, w.data, 1)
         ELSE PollOut(txbuf, revents \ {"POLLOUT"}, w.data, 1)
    ELSE PollOut(txbuf, revents, <<>>, 0)

\* A variant that asks for POLLOUT only when the caller wants to send.
tcp_prepoll_want_only(txbuf, want, events) ==
    [retval |-> FALSE,
     events |-> events
                  \cup (IF "WANT_RECV" \in want THEN {"POLLIN"} ELSE {})
                  \cup (IF "WANT_SEND" \in want THEN {"POLLOUT"} ELSE {})]

\* tcp_prepoll(vconn, want, pfd): the value returned and pfd->events, which
\* held 'events' before the call.
tcp_prepoll(txbuf, want, events) ==
    [retval |-> FALSE,
     events |-> events
                  \cup (IF "WANT_RECV" \in want THEN {"POLLIN"} ELSE {})
                  \cup (IF "WANT_SEND" \in want \/ txbuf # NoBuf
                        THEN {"POLLOUT"} ELSE {})]

\* tcp_close(vconn): the descriptor is closed and the struct tcp_vconn is
\* freed; rxbuf and txbuf are the buffers that remain allocated.
tcp_close(rxbuf, txbuf) ==
    [fd |-> "closed", vconn |-> "freed", rxbuf |-> rxbuf, txbuf |-> txbuf]

\* A vconn as new_tcp_vconn leaves it: open, with no txbuf; no byte has
\* been written (wire), no message accepted, nothing called: given and plan
\* are the buffer and the room of the socket of the latest call, want and
\* events the want-mask and the pfd->events the latest tcp_prepoll was given.
VcIdle ==
    [open |-> TRUE, txbuf |-> NoBuf, wire |-> <<>>, accepted |-> <<>>,
     given |-> <<>>, plan |-> 0, want |-> {}, events |-> {},
     out |-> VcOut("none", 0, {}, <<>>, 0, NoBuf)]

\* The messages the caller sends.
SendMsgs == {<<1, 2, 3>>, <<4, 5>>}

\* The room the socket has at a write(): for no byte, one, two, or three;
\* or the write() fails: it would block, is interrupted by a signal, or
\* finds no buffer space.
WritePlans == {0, 1, 2, 3, -EAGAIN, -EINTR, -ENOBUFS}

\* The events poll() reports.
ReventsChoices == {{"POLLOUT"}, {"POLLIN"}, {"POLLIN", "POLLOUT"}}

\* tcp_send(vconn, buffer)
TcpSend(buffer, plan) ==
    /\ vc.open
    /\ Len(vc.accepted) < MaxSends
    /\ \E o \in {tcp_send(vc.txbuf, buffer, plan)} :
          vc' = [vc EXCEPT !.txbuf = o.txbuf, !.wire = @ \o o.out.written,
                           !.accepted = IF o.out.retval = 0
                                        THEN Append(@, buffer) ELSE @,
                           !.given = buffer, !.plan = plan, !.out = o.out]
    /\ UNCHANGED <<unix_pid, next_seq, avail_sockets, socks, msg, last, built,
                   number, tx, rxq, bufp, parse, tcp, sig,
                   dec, opn>>

\* tcp_postpoll(vconn, &revents)
TcpPostpoll(revents, plan) ==
    /\ vc.open
    /\ \E o \in {tcp_postpoll(vc.txbuf, revents, plan)} :
          vc' = [vc EXCEPT !.txbuf = o.txbuf, !.wire = @ \o o.out.written,
                           !.given = <<>>, !.plan = plan, !.out = o.out]
    /\ UNCHANGED <<unix_pid, next_seq, avail_sockets, socks, msg, last, built,
                   number, tx, rxq, bufp, parse, tcp, sig,
                   dec, opn>>

\* The want-masks of the caller, and what pfd->events may hold before
\* tcp_prepoll.
WantChoices == SUBSET {"WANT_RECV", "WANT_SEND"}
EventsChoices == {{}, {"POLLIN"}, {"POLLPRI"}}

\* tcp_prepoll(vconn, want, &pfd); the outcome holds pfd->events.
TcpPrepoll(want, events) ==
    /\ vc.open
    /\ \E o \in {tcp_prepoll(vc.txbuf, want, events)} :
          vc' = [vc EXCEPT !.given = <<>>, !.plan = 0, !.want = want,
                           !.events = events,
                           !.out = VcOut("prepoll", 0, o.events, <<>>, 0, NoBuf)]
    /\ UNCHANGED <<unix_pid, next_seq, avail_sockets, socks, msg, last, built,
                   number, tx, rxq, bufp, parse, tcp, sig, dec, opn>>

\* One turn of the caller's loop: tcp_prepoll with an empty pfd->events,
\* poll(), which reports those of the events asked for that are ready, and
\* tcp_postpoll; the socket has room for plan bytes.
PollLoop(want, ready, plan) ==
    /\ vc.open
    /\ \E o \in {tcp_postpoll(vc.txbuf,
                              tcp_prepoll(vc.txbuf, want, {}).events
                                 \cap ready,
                              plan)} :
          vc' = [vc EXCEPT !.txbuf = o.txbuf, !.wire = @ \o o.out.written,
                           !.given = <<>>, !.plan = plan, !.want = want,
                           !.events = {}, !.out = o.out]
    /\ UNCHANGED <<unix_pid, next_seq, avail_sockets, socks, msg, last, built,
                   number, tx, rxq, bufp, parse, tcp, sig, dec, opn>>

\* A turn of the loop at which the socket is writable and takes at least
\* one byte.
PollLoopWritable ==
    \E want \in WantChoices, ready \in ReventsChoices,
       plan \in {p \in WritePlans : p >= 1} :
        "POLLOUT" \in ready /\ PollLoop(want, ready, plan)

\* tcp_close(vconn)
TcpClose ==
    /\ vc.open
    /\ \E o \in {tcp_close(tcp.rxbuf, vc.txbuf)} :
          /\ vc' = [vc EXCEPT !.open = FALSE, !.txbuf = o.txbuf,
                              !.given = <<>>, !.plan = 0,
                              !.out = VcOut("close", 0, {}, <<>>, 0, NoBuf)]
          /\ tcp' = [tcp EXCEPT !.rxbuf = o.rxbuf]
    /\ UNCHANGED <<unix_pid, next_seq, avail_sockets, socks, msg, last, built,
                   number, tx, rxq, bufp, parse, sig,
                   dec, opn>>

\* The signals fatal-signal.c catches.
fatal_signals == {"SIGTERM", "SIGINT", "SIGHUP"}

\* The signals of the model: those, and one that is not caught.
Signals == fatal_signals \cup {"SIGUSR1"}

\* fatal-signal.c before any call: block_level, inited, fatal_signal_set
\* and saved_signal_mask are zero.  mask is the signal mask of the process,
\* entry the mask it was started with, started whether it has been started;
\* blocks and unblocks count the calls, aborted says an assertion failed.
\* An element of hooks[]: 'set' names the members the program has written.
HookSlot(func, aux, set) == [func |-> func, aux |-> aux, set |-> set]

\* A member of hooks[] or an element of files[] the program has not
\* written.
Unwritten == "unwritten"

\* hooks and files are the arrays, n_hooks, n_files and max_files the
\* counts, added_hook the static flag of fatal_signal_add_file_to_unlink.
\* pc is the statement the main program is at, ret the statement a nested
\* fatal_signal_add_hook returns to, func, aux and file the arguments of the
\* call, idx the index the loop of fatal_signal_remove_file_to_unlink stopped
\* at.  pending holds the signals that have arrived and not been delivered,
\* each with the statement it arrived at; seen what signal_handler found
\* when it ran, killed whether a signal has ended the process.
SigIdle ==
    [block_level |-> 0, inited |-> FALSE, fatal_signal_set |-> {},
     saved_signal_mask |-> {}, mask |-> {}, entry |-> {}, started |-> FALSE,
     blocks |-> 0, unblocks |-> 0, aborted |-> FALSE, op |-> "none",
     pc |-> "idle", ret |-> "idle", func |-> "none", aux |-> "none",
     file |-> "none", idx |-> 0,
     hooks |-> [i \in 1..MAX_HOOKS |-> HookSlot(Unwritten, Unwritten, {})], n_hooks |-> 0,
     files |-> <<>>, n_files |-> 0, max_files |-> 0, added_hook |-> FALSE,
     pending |-> {}, seen |-> <<>>, killed |-> FALSE]

\* sigprocmask(how, new_set, old_set): the new mask of the process.
sigprocmask(how, new_set, mask) ==
    IF how = "SIG_BLOCK" THEN mask \cup new_set ELSE new_set

\* A variant that counts the level and leaves the signal mask alone.
fatal_signal_block_counting(g) ==
    [g EXCEPT !.inited = TRUE,
              !.fatal_signal_set = IF g.inited THEN g.fatal_signal_set
                                   ELSE fatal_signals,
              !.block_level = @ + 1]

\* fatal_signal_block() on the state g of fatal-signal.c.
fatal_signal_block(g) ==
    LET set == IF g.inited THEN g.fatal_signal_set ELSE fatal_signals
        h == [g EXCEPT !.inited = TRUE, !.fatal_signal_set = set,
                       !.block_level = @ + 1]
    IN  IF h.block_level = 1
        THEN [h EXCEPT !.saved_signal_mask = g.mask,
                       !.mask = sigprocmask("SIG_BLOCK", set, g.mask)]
        ELSE h

\* A variant that restores the saved mask at every level.
fatal_signal_unblock_eager(g) ==
    IF ~(g.block_level > 0)
    THEN [g EXCEPT !.aborted = TRUE]
    ELSE [g EXCEPT !.block_level = @ - 1,
                   !.mask = sigprocmask("SIG_SETMASK", g.saved_signal_mask,
                                        g.mask)]

\* fatal_signal_unblock() on the state g of fatal-signal.c; the assertion
\* aborts the process.
fatal_signal_unblock(g) ==
    IF ~(g.block_level > 0)
    THEN [g EXCEPT !.aborted = TRUE]
    ELSE IF g.block_level - 1 = 0
    THEN [g EXCEPT !.block_level = @ - 1,
                   !.mask = sigprocmask("SIG_SETMASK", g.saved_signal_mask,
                                        g.mask)]
    ELSE [g EXCEPT !.block_level = @ - 1]

\* The process is started with the signal mask it inherits.
SigStart(mask) ==
    /\ ~sig.started
    /\ sig' = [sig EXCEPT !.started = TRUE, !.mask = mask, !.entry = mask,
                          !.op = "start"]
    /\ UNCHANGED <<unix_pid, next_seq, avail_sockets, socks, msg, last, built,
                   number, tx, rxq, bufp, parse, tcp, vc,
                   dec, opn>>

\* fatal_signal_block()
FatalSignalBlock ==
    /\ sig.started
    /\ ~sig.aborted
    /\ sig.blocks < MaxBlocks
    /\ sig' = [fatal_signal_block(sig) EXCEPT !.blocks = @ + 1,
                                              !.op = "block"]
    /\ UNCHANGED <<unix_pid, next_seq, avail_sockets, socks, msg, last, built,
                   number, tx, rxq, bufp, parse, tcp, vc,
                   dec, opn>>

\* fatal_signal_unblock()
FatalSignalUnblock ==
    /\ sig.started
    /\ ~sig.aborted
    /\ sig' = [fatal_signal_unblock(sig) EXCEPT !.unblocks = @ + 1,
                                                !.op = "unblock"]
    /\ UNCHANGED <<unix_pid, next_seq, avail_sockets, socks, msg, last, built,
                   number, tx, rxq, bufp, parse, tcp, vc,
                   dec, opn>>

\* array[i] = v, the array holding at least i elements.
Store(array, i, v) == [array EXCEPT ![i] = v]

\* The statements of fatal_signal_add_hook, fatal_signal_add_file_to_unlink
\* and fatal_signal_remove_file_to_unlink that lie between the
\* fatal_signal_block() and the fatal_signal_unblock() of the function.
CriticalPcs ==
    {"ah_func", "ah_aux", "ah_inc", "ah_unblock",
     "af_grow", "af_store", "af_inc_first", "af_store_first", "af_unblock",
     "rf_find", "rf_move", "rf_unblock"}

\* The statement at g.pc: the states the program can be in after it.  The
\* side effect of n_files++ and the store of files[n_files++] = xstrdup(file)
\* come in either order.
main_step(g) ==
    CASE g.pc = "ah_block" ->
           {[fatal_signal_block(g) EXCEPT !.pc = "ah_func"]}
      [] g.pc = "ah_func" ->
           IF ~(g.n_hooks < MAX_HOOKS)
           THEN {[g EXCEPT !.aborted = TRUE]}
           ELSE {[g EXCEPT !.hooks = Store(@, g.n_hooks + 1,
                                           HookSlot(g.func, Unwritten, {"func"})),
                           !.pc = "ah_aux"]}
      [] g.pc = "ah_aux" ->
           {[g EXCEPT !.hooks = Store(@, g.n_hooks + 1,
                                      HookSlot(g.func, g.aux, {"func", "aux"})),
                      !.pc = "ah_inc"]}
      [] g.pc = "ah_inc" ->
           {[g EXCEPT !.n_hooks = @ + 1, !.pc = "ah_unblock"]}
      [] g.pc = "ah_unblock" ->
           {[fatal_signal_unblock(g) EXCEPT !.pc = g.ret, !.ret = "idle"]}
      [] g.pc = "af_first" ->
           IF ~g.added_hook
           THEN {[g EXCEPT !.added_hook = TRUE, !.func = "unlink_files",
                           !.aux = "NULL", !.ret = "af_atexit",
                           !.pc = "ah_block"]}
           ELSE {[g EXCEPT !.pc = "af_block"]}
      [] g.pc = "af_atexit" ->
           {[g EXCEPT !.pc = "af_block"]}
      [] g.pc = "af_block" ->
           {[fatal_signal_block(g) EXCEPT !.pc = "af_grow"]}
      [] g.pc = "af_grow" ->
           IF g.n_files >= g.max_files
           THEN {[g EXCEPT !.max_files = g.max_files * 2 + 1,
                           !.files = [i \in 1..(g.max_files * 2 + 1) |->
                                         IF i <= g.max_files THEN g.files[i]
                                         ELSE Unwritten],
                           !.pc = "af_store"]}
           ELSE {[g EXCEPT !.pc = "af_store"]}
      [] g.pc = "af_store" ->
           {[g EXCEPT !.files = Store(@, g.n_files + 1, g.file),
                      !.pc = "af_store_first"],
            [g EXCEPT !.n_files = @ + 1, !.pc = "af_inc_first"]}
      [] g.pc = "af_store_first" ->
           {[g EXCEPT !.n_files = @ + 1, !.pc = "af_unblock"]}
      [] g.pc = "af_inc_first" ->
           {[g EXCEPT !.files = Store(@, g.n_files, g.file),
                      !.pc = "af_unblock"]}
      [] g.pc = "af_unblock" ->
           {[fatal_signal_unblock(g) EXCEPT !.pc = "idle"]}
      [] g.pc = "rf_block" ->
           {[fatal_signal_block(g) EXCEPT !.pc = "rf_find"]}
      [] g.pc = "rf_find" ->
           IF \E i \in 1..g.n_files : g.files[i] = g.file
           THEN LET i == CHOOSE i \in 1..g.n_files :
                            /\ g.files[i] = g.file
                            /\ \A j \in 1..(i - 1) : g.files[j] # g.file
                IN  {[g EXCEPT !.files = Store(@, i, "freed"), !.idx = i,
                               !.pc = "rf_move"]}
           ELSE {[g EXCEPT !.pc = "rf_unblock"]}
      [] g.pc = "rf_move" ->
           {[g EXCEPT !.n_files = @ - 1,
                      !.files = Store(@, g.idx, g.files[g.n_files]),
                      !.pc = "rf_unblock"]}
      [] g.pc = "rf_unblock" ->
           {[fatal_signal_unblock(g) EXCEPT !.pc = "idle"]}
      [] OTHER -> {}

\* What signal_handler finds when it runs for signal s in state g: the
\* statement it interrupted, the statement the signal arrived at, n_hooks
\* and n_files, whether hooks[0 .. n_hooks - 1] are written in full, and
\* whether files[0 .. n_files - 1] are strings the program registered.
signal_handler(g, s) ==
    [sig_nr |-> s.sig_nr, at |-> g.pc, arrived |-> s.at,
     block_level |-> g.block_level,
     n_hooks |-> g.n_hooks, n_files |-> g.n_files,
     hooks_written |->
        \A i \in 1..g.n_hooks :
           i <= Len(g.hooks) /\ g.hooks[i].set = {"func", "aux"},
     files_valid |->
        \A i \in 1..g.n_files :
           i <= Len(g.files) /\ g.files[i] \notin {Unwritten, "freed"}]

\* The hooks and the files the program registers.
HookFuncs == {"hook1"}
FileNames == {"a", "b"}

\* The program runs: no assertion has failed and no signal has ended it.
SigRunning == sig.started /\ ~sig.aborted /\ ~sig.killed

\* fatal_signal_add_hook(func, aux): the call.
AddHookCall(func) ==
    /\ SigRunning
    /\ sig.pc = "idle"
    /\ sig.n_hooks < MaxHooks
    /\ sig' = [sig EXCEPT !.pc = "ah_block", !.ret = "idle", !.func = func,
                          !.aux = "aux", !.op = "add_hook"]
    /\ UNCHANGED <<unix_pid, next_seq, avail_sockets, socks, msg, last, built,
                   number, tx, rxq, bufp, parse, tcp, vc, dec, opn>>

\* fatal_signal_add_file_to_unlink(file): the call.
AddFileCall(file) ==
    /\ SigRunning
    /\ sig.pc = "idle"
    /\ sig.n_files < MaxFiles
    /\ sig' = [sig EXCEPT !.pc = "af_first", !.file = file,
                          !.op = "add_file"]
    /\ UNCHANGED <<unix_pid, next_seq, avail_sockets, socks, msg, last, built,
                   number, tx, rxq, bufp, parse, tcp, vc, dec, opn>>

\* fatal_signal_remove_file_to_unlink(file): the call.
RemoveFileCall(file) ==
    /\ SigRunning
    /\ sig.pc = "idle"
    /\ sig' = [sig EXCEPT !.pc = "rf_block", !.file = file,
                          !.op = "remove_file"]
    /\ UNCHANGED <<unix_pid, next_seq, avail_sockets, socks, msg, last, built,
                   number, tx, rxq, bufp, parse, tcp, vc, dec, opn>>

\* The program executes the statement it is at.
MainStep ==
    /\ SigRunning
    /\ sig.pc # "idle"
    /\ \E h \in main_step(sig) : sig' = h
    /\ UNCHANGED <<unix_pid, next_seq, avail_sockets, socks, msg, last, built,
                   number, tx, rxq, bufp, parse, tcp, vc, dec, opn>>

\* The caller of the three functions blocks and unblocks on its own, once.
CallerBlock ==
    sig.pc = "idle" /\ ~sig.killed /\ sig.blocks = 0 /\ FatalSignalBlock
CallerUnblock ==
    sig.pc = "idle" /\ ~sig.killed /\ sig.block_level > 0 /\ FatalSignalUnblock

\* A termination signal is sent to the process.
SignalArrive(sig_nr) ==
    /\ SigRunning
    /\ \A s \in sig.pending : s.sig_nr # sig_nr
    /\ sig' = [sig EXCEPT !.pending = @ \cup {[sig_nr |-> sig_nr, at |-> sig.pc]}]
    /\ UNCHANGED <<unix_pid, next_seq, avail_sockets, socks, msg, last, built,
                   number, tx, rxq, bufp, parse, tcp, vc, dec, opn>>

\* A pending signal the mask does not hold is delivered: signal_handler runs
\* once fatal_signal_block has installed it, and the default action ends the
\* process.
SignalDeliver(s) ==
    /\ SigRunning
    /\ s \in sig.pending
    /\ s.sig_nr \notin sig.mask
    /\ sig' = [sig EXCEPT !.pending = @ \ {s},
                          !.seen = IF sig.inited THEN <<signal_handler(sig, s)>>
                                   ELSE <<>>,
                          !.killed = TRUE,
                          !.op = "signal"]
    /\ UNCHANGED <<unix_pid, next_seq, avail_sockets, socks, msg, last, built,
                   number, tx, rxq, bufp, parse, tcp, vc, dec, opn>>

\* No message has been received.
DecIdle == [m |-> NoBuf, out |-> NoBuf]

\* The nlmsg_type, the size and the error field of the messages received.
DecTypes == {NLMSG_ERROR, GENL_ID_CTRL, NLMSG_ERROR + 1, 0}
DecSizes ==
    {NLMSG_HDRLEN, NLMSG_HDRLEN + NLMSGERR_SIZE - 1,
     NLMSG_HDRLEN + NLMSGERR_SIZE, NLMSG_HDRLEN + NLMSGERR_SIZE + NLA_HDRLEN}
DecErrors ==
    {0, -1, -EAGAIN, -EPROTO, 1, EPROTO, INT_MIN, INT_MIN + 1, -(INT_MIN + 1)}

\* A message arrives.
DecReceive(type, size, error) ==
    /\ dec.m = NoBuf
    /\ dec' = [dec EXCEPT !.m = <<Msg(size, type, 0, 1, 0, size, error, <<>>)>>]
    /\ UNCHANGED <<unix_pid, next_seq, avail_sockets, socks, msg, last, built,
                   number, tx, rxq, bufp, parse, tcp, vc, sig, opn>>

\* nl_msg_nlmsgerr(msg, &error)
DecNlmsgerr ==
    /\ dec.m # NoBuf
    /\ dec.out = NoBuf
    /\ dec' = [dec EXCEPT !.out = <<nl_msg_nlmsgerr(dec.m[1])>>]
    /\ UNCHANGED <<unix_pid, next_seq, avail_sockets, socks, msg, last, built,
                   number, tx, rxq, bufp, parse, tcp, vc, sig, opn>>

\* The outcome of tcp_open, ptcp_open or ptcp_accept: the descriptors open
\* afterwards, the value returned and '*vconnp' (empty when not assigned).
OpenOut(fds, retval, vconnp) ==
    [fds |-> fds, retval |-> retval, vconnp |-> vconnp]

\* The descriptor socket() or accept() returns: the lowest one not open.
lowest_fd(fds) ==
    CHOOSE fd \in 3..(3 + Cardinality(fds)) :
        fd \notin fds /\ \A g \in 3..(fd - 1) : g \in fds

\* new_tcp_vconn(name, fd, vconnp); 'fail' names the call that fails, with
\* errno 'errno'.
new_tcp_vconn(fds, fd, fail, errno) ==
    IF fail = "set_nonblocking" THEN OpenOut(fds \ {fd}, errno, <<>>)
    ELSE IF fail = "nodelay" THEN OpenOut(fds \ {fd}, errno, <<>>)
    ELSE OpenOut(fds, 0, <<[class |-> "tcp", fd |-> fd]>>)

\* tcp_open(name, suffix, vconnp)
tcp_open(fds, fail, errno) ==
    LET fd == lowest_fd(fds)
    IN  IF fail = "lookup_ip" THEN OpenOut(fds, ENOENT, <<>>)
        ELSE IF fail = "socket" THEN OpenOut(fds, errno, <<>>)
        ELSE IF fail = "connect" THEN OpenOut((fds \cup {fd}) \ {fd}, errno, <<>>)
        ELSE new_tcp_vconn(fds \cup {fd}, fd, fail, errno)

\* A variant that closes the socket when setsockopt(SO_REUSEADDR) fails.
ptcp_open_closing(fds, fail, errno) ==
    LET fd == lowest_fd(fds)
    IN  IF fail \in {"socket", "reuseaddr", "bind", "listen", "set_nonblocking"}
        THEN OpenOut(fds, errno, <<>>)
        ELSE OpenOut(fds \cup {fd}, 0, <<[class |-> "ptcp", fd |-> fd]>>)

\* ptcp_open(name, suffix, vconnp)
ptcp_open(fds, fail, errno) ==
    LET fd == lowest_fd(fds)
    IN  IF fail = "socket" THEN OpenOut(fds, errno, <<>>)
        ELSE IF fail = "reuseaddr" THEN OpenOut(fds \cup {fd}, errno, <<>>)
        ELSE IF fail \in {"bind", "listen", "set_nonblocking"}
        THEN OpenOut((fds \cup {fd}) \ {fd}, errno, <<>>)
        ELSE OpenOut(fds \cup {fd}, 0, <<[class |-> "ptcp", fd |-> fd]>>)

\* ptcp_accept(vconn, new_vconnp)
ptcp_accept(fds, fail, errno) ==
    LET new_fd == lowest_fd(fds)
    IN  IF fail = "accept" THEN OpenOut(fds, errno, <<>>)
        ELSE new_tcp_vconn(fds \cup {new_fd}, new_fd, fail, errno)

\* Nothing has been opened: no descriptor is open and there is no vconn.
OpnIdle ==
    [op |-> "none", fail |-> "none", fds |-> {}, vconns |-> {},
     retval |-> 0, vconnp |-> <<>>]

\* The calls that can fail in each function, and the errno they fail with.
TcpOpenFails ==
    {"none", "lookup_ip", "socket", "connect", "set_nonblocking", "nodelay"}
PtcpOpenFails ==
    {"none", "socket", "reuseaddr", "bind", "listen", "set_nonblocking"}
PtcpAcceptFails == {"none", "accept", "set_nonblocking", "nodelay"}
OpenErrnos == {EINVAL, ENOMEM}

\* The call op has returned o.
Opened(op, fail, o) ==
    /\ opn' = [op |-> op, fail |-> fail, fds |-> o.fds,
               vconns |-> opn.vconns \cup {o.vconnp[i] : i \in DOMAIN o.vconnp},
               retval |-> o.retval, vconnp |-> o.vconnp]
    /\ UNCHANGED <<unix_pid, next_seq, avail_sockets, socks, msg, last, built,
                   number, tx, rxq, bufp, parse, tcp, vc, sig, dec>>

\* tcp_open(name, suffix, &vconn)
TcpOpen(fail, errno) ==
    /\ Cardinality(opn.fds) < MaxFds
    /\ \E o \in {tcp_open(opn.fds, fail, errno)} : Opened("tcp_open", fail, o)

\* ptcp_open(name, suffix, &vconn)
PtcpOpen(fail, errno) ==
    /\ Cardinality(opn.fds) < MaxFds
    /\ \E o \in {ptcp_open(opn.fds, fail, errno)} : Opened("ptcp_open", fail, o)

\* ptcp_accept(vconn, &new_vconn) on the passive vconn v
PtcpAccept(v, fail, errno) ==
    /\ Cardinality(opn.fds) < MaxFds
    /\ v \in opn.vconns
    /\ v.class = "ptcp"
    /\ \E o \in {ptcp_accept(opn.fds, fail, errno)} :
          Opened("ptcp_accept", fail, o)

\* tcp_close(vconn) or ptcp_close(vconn): close(fd) and free.
VconnClose(v) ==
    /\ v \in opn.vconns
    /\ opn' = [op |-> "close", fail |-> "none", fds |-> opn.fds \ {v.fd},
               vconns |-> opn.vconns \ {v}, retval |-> 0, vconnp |-> <<>>]
    /\ UNCHANGED <<unix_pid, next_seq, avail_sockets, socks, msg, last, built,
                   number, tx, rxq, bufp, parse, tcp, vc, sig, dec>>

\* A Generic Netlink message without attributes; no put has been applied
\* to it and it has not been parsed.
ParseIdle ==
    [puts |-> <<>>, m |-> GenlReply(0, 0, <<>>), policy |-> <<>>,
     beyond |-> <<>>, out |-> NoBuf]

\* The descriptors sockets can get.
Fds == 3..(2 + MAX_SOCKETS)

Init ==
    /\ unix_pid \in UnixPids
    /\ next_seq = 0
    /\ avail_sockets = {}
    /\ socks = {}
    /\ msg = NoBuf
    /\ last = Last("none", 0, "none", {}, <<>>, <<>>)
    /\ built = <<>>
    /\ number = 0
    /\ tx = TxIdle
    /\ rxq = [fd \in Fds |-> <<>>]
    /\ bufp = NoBuf
    /\ parse = ParseIdle
    /\ tcp = TcpIdle
    /\ vc = VcIdle
    /\ sig = SigIdle
    /\ dec = DecIdle
    /\ opn = OpnIdle

\* The process state the socket calls work on.
P == [next_seq |-> next_seq, avail_sockets |-> avail_sockets, socks |-> socks]

SetP(q) ==
    /\ next_seq' = q.next_seq
    /\ avail_sockets' = q.avail_sockets
    /\ socks' = q.socks

\* The process runs: it has not died on a null pointer.
Alive == last.op # "crash"

\* What the environment can do to one nl_sock_create.  time(0) is read only
\* while next_seq is 0, errno only after a failed system call.
CreateEnvs ==
    {[clock |-> c, fail |-> f, errno |-> e] :
        c \in (IF next_seq = 0 THEN 0..MaxClock ELSE {0}),
        f \in {"none", "malloc"}, e \in {0}}
    \cup
    {[clock |-> c, fail |-> "socket", errno |-> e] :
        c \in (IF next_seq = 0 THEN 0..MaxClock ELSE {0}), e \in {0, ENOBUFS}}
    \cup
    {[clock |-> c, fail |-> f, errno |-> ENOBUFS] :
        c \in (IF next_seq = 0 THEN 0..MaxClock ELSE {0}),
        f \in {"sndbuf", "rcvbuf", "bind", "connect", "membership"}}

\* The environments in which every system call of nl_sock_create succeeds.
CreateEnvsOk == {e \in CreateEnvs : e.fail = "none"}

CreateArgs ==
    {[multicast_group |-> 0, so_sndbuf |-> 0, so_rcvbuf |-> 0],
     [multicast_group |-> 33, so_sndbuf |-> 4096, so_rcvbuf |-> 4096]}

\* nl_sock_create(protocol, multicast_group, so_sndbuf, so_rcvbuf, &sock)
Create(a, env) ==
    /\ Alive
    /\ \E r \in {nl_sock_create(P, unix_pid, a, env)} :
           /\ SetP(r.p)
           /\ last' = Last("create", r.retval, env.fail, r.sockp, <<>>, <<>>)
    /\ UNCHANGED <<unix_pid, msg, number, tx>>

\* nl_sock_destroy(sock)
Destroy(s) ==
    /\ Alive
    /\ s \in socks
    /\ SetP(nl_sock_destroy(P, s))
    /\ last' = Last("destroy", 0, "none", {s.fd}, <<>>, <<>>)
    /\ UNCHANGED <<unix_pid, msg, number, tx>>

\* What the kernel can do to one do_lookup_genl_family.
LookupAnswers ==
    {[kind |-> "family", id |-> 4660], [kind |-> "family", id |-> 0],
     [kind |-> "noattr", id |-> 0], [kind |-> "badlen", id |-> 4660],
     [kind |-> "error", id |-> 0], [kind |-> "error", id |-> -2],
     [kind |-> "recverr", id |-> 0]}

\* The family name looked up, a string of two characters.
FamilyName == <<111, 102, 0>>

LookupEnv(c, k, snd, ans) ==
    [create |-> c, k |-> k, snd |-> snd, ans |-> ans, name |-> FamilyName]

\* The socket cannot be created; or the request cannot be sent; or the reply
\* is dropped MaxEnobufs times before it arrives; or one of LookupAnswers
\* comes at once.
LookupEnvs ==
    {LookupEnv(c, 0, <<SysOk>>, [kind |-> "recverr", id |-> 0]) :
        c \in {e \in CreateEnvs : e.fail \in {"malloc", "socket", "bind"}}}
    \cup
    {LookupEnv(c, 0, <<SysErr(EINVAL)>>, [kind |-> "recverr", id |-> 0]) :
        c \in CreateEnvsOk}
    \cup
    {LookupEnv(c, MaxEnobufs, <<SysOk>>, [kind |-> "family", id |-> 4660]) :
        c \in CreateEnvsOk}
    \cup
    {LookupEnv(c, 0, <<SysErr(EINTR), SysOk>>, ans) :
        c \in CreateEnvsOk, ans \in LookupAnswers}

\* The result of nl_lookup_genl_family once '*number' holds n after the
\* lookup o (LookupOut) that filled it, or after none.
LookupResult(o, n, fail) ==
    [p |-> o.p, number |-> n, retval |-> IF n > 0 THEN 0 ELSE -n,
     sent |-> o.sent, built |-> o.built, crashed |-> o.crashed, fail |-> fail]

\* A variant that looks the family up again while the cache holds no
\* family id.
nl_lookup_genl_family_retrying(p, upid, cached, env) ==
    IF cached > 0
    THEN LookupResult(LookupOut(p, cached, <<>>, <<>>, FALSE), cached, "cached")
    ELSE CHOOSE r \in {LookupResult(o, o.result, env.create.fail) :
                          o \in {do_lookup_genl_family(p, upid, env)}} : TRUE

\* nl_lookup_genl_family(name, &number) with '*number' holding 'cached'.
nl_lookup_genl_family(p, upid, cached, env) ==
    IF cached # 0
    THEN LookupResult(LookupOut(p, cached, <<>>, <<>>, FALSE), cached, "cached")
    ELSE CHOOSE r \in {LookupResult(o, o.result, env.create.fail) :
                          o \in {do_lookup_genl_family(p, upid, env)}} : TRUE

\* The environment later calls of nl_lookup_genl_family run in: one in which
\* a lookup would find the family.
CachedEnv ==
    LookupEnv([clock |-> 0, fail |-> "none", errno |-> 0], 0, <<SysOk>>,
              [kind |-> "family", id |-> 4660])

\* nl_lookup_genl_family(name, &number), called with the cache holding 'cached'
\* (0 for a cache not yet filled).
Lookup(cached, env) ==
    /\ Alive
    /\ \E r \in {nl_lookup_genl_family(P, unix_pid, cached, env)} :
           /\ SetP(r.p)
           /\ number' = r.number
           /\ last' = Last(IF r.crashed THEN "crash" ELSE "lookup", r.retval,
                           r.fail, {}, r.sent, r.built)
    /\ UNCHANGED <<unix_pid, msg, tx>>

\* The caller turns to a cache it has not used yet (a static int that is 0).
NewCache ==
    /\ Alive
    /\ number # 0
    /\ number' = 0
    /\ last' = Last("newcache", 0, "none", {}, <<>>, <<>>)
    /\ UNCHANGED <<unix_pid, next_seq, avail_sockets, socks, msg, tx>>

-----------------------------------------------------------------------------
(* Building and sending messages. *)

\* nl_msg_put_nlmsghdr(msg, sock, 0, type, flags) on the empty buffer.
PutNlmsghdr(s, type, flags) ==
    /\ Alive
    /\ s \in socks
    /\ msg = NoBuf
    /\ LET m == nl_msg_put_nlmsghdr(next_seq, s, type, flags)
       IN  /\ msg' = <<m>>
           /\ last' = Last("put_nlmsghdr", 0, "none", {s.fd}, <<>>, <<m.nlmsg_seq>>)
    /\ next_seq' = NextSeq(next_seq)
    /\ UNCHANGED <<unix_pid, avail_sockets, socks, number, tx>>

\* nl_msg_put_u32(msg, type, value) on the buffer.
PutAttr(type, value) ==
    /\ Alive
    /\ msg # NoBuf
    /\ Len(msg[1].attrs) < MaxAttrs * NLA_ALIGN(NLA_HDRLEN + 4)
    /\ msg' = <<nl_msg_put_u32(msg[1], type, value)>>
    /\ last' = Last("put_u32", 0, "none", {}, <<>>, <<>>)
    /\ UNCHANGED <<unix_pid, next_seq, avail_sockets, socks, number, tx>>

\* buffer_uninit / buffer_reinit of the buffer by its owner.
Uninit ==
    /\ Alive
    /\ msg # NoBuf
    /\ msg' = NoBuf
    /\ last' = Last("buffer_uninit", 0, "none", {}, <<>>, <<>>)
    /\ UNCHANGED <<unix_pid, next_seq, avail_sockets, socks, number, tx>>

\* The flags nl_sock_send passes to send().
nl_sock_send_flags(wait) == IF wait THEN 0 ELSE MSG_DONTWAIT

\* The flags nl_sock_sendv passes to sendmsg().
nl_sock_sendv_flags(wait) == MSG_DONTWAIT

\* What the kernel can make of the send() or sendmsg() calls of one send
\* operation: with MSG_DONTWAIT a full send buffer is reported as EAGAIN,
\* without it the call waits for room.
SendOutcomes(flags) ==
    {<<SysOk>>, <<SysErr(EINTR), SysOk>>, <<SysErr(EINVAL)>>}
    \cup (IF flags = MSG_DONTWAIT THEN {<<SysErr(EAGAIN)>>} ELSE {})

\* Outcomes of the send() calls of one nl_sock_send.
SendResults(wait) == SendOutcomes(nl_sock_send_flags(wait))

\* nl_sock_send(sock, msg, wait) on the buffer.
Send(s, wait, results) ==
    /\ Alive
    /\ s \in socks
    /\ msg # NoBuf
    /\ \E r \in {nl_sock_send(s.fd, msg[1], results)} :
           /\ msg' = <<r.msg>>
           /\ last' = Last("send", r.retval, "none", {s.fd}, r.sent, <<>>)
    /\ UNCHANGED <<unix_pid, next_seq, avail_sockets, socks, number, tx>>

\* nl_sock_sendv(sock, iov, n_iov, wait): [retval, sent].  The chunks are
\* those of the message m, sent as they are.
nl_sock_sendv(fd, m, results) ==
    [retval |-> RetryEINTR(results).err,
     sent |-> IF RetryEINTR(results).err = 0 THEN <<Dgram(fd, m)>> ELSE <<>>]

\* nl_sock_sendv(sock, iov, 1, wait) on the buffer, which holds a message
\* that is fully formed: its nlmsg_len needs no finalization.
Sendv(s, wait, results) ==
    /\ Alive
    /\ s \in socks
    /\ msg # NoBuf
    /\ msg[1].nlmsg_len = msg[1].size
    /\ \E r \in {nl_sock_sendv(s.fd, msg[1], results)} :
           last' = Last(IF wait THEN "sendv_wait" ELSE "sendv", r.retval, "none",
                        {s.fd}, r.sent, <<>>)
    /\ UNCHANGED <<unix_pid, next_seq, avail_sockets, socks, msg, number, tx>>

\* The datagrams the kernel queues for a socket: well-formed ones of the
\* size of a bare header, of the initial read size, one byte more and more
\* than twice that, told apart by nlmsg_seq, and one whose nlmsg_len
\* exceeds its size.
RecvSizes == {NLMSG_HDRLEN, RECV_BUFSIZE, RECV_BUFSIZE + 1, 2 * RECV_BUFSIZE + 1}

RecvDatagrams ==
    {Msg(n, GENL_ID_CTRL, 0, 1, 0, n, 0, <<>>) : n \in RecvSizes}
    \cup {Msg(NLMSG_HDRLEN, GENL_ID_CTRL, 0, 2, 0, NLMSG_HDRLEN, 0, <<>>)}
    \cup {Msg(NLMSG_HDRLEN + 1, GENL_ID_CTRL, 0, 0, 0, NLMSG_HDRLEN, 0, <<>>)}

RECURSIVE SumLen(_, _)
SumLen(f, D) ==
    IF D = {} THEN 0
    ELSE LET d == CHOOSE x \in D : TRUE IN Len(f[d]) + SumLen(f, D \ {d})

\* The kernel queues datagram d for the socket.
Deliver(s, d) ==
    /\ Alive
    /\ s \in socks
    /\ SumLen(rxq, Fds) < MaxQueue
    /\ rxq' = [rxq EXCEPT ![s.fd] = Append(@, d)]
    /\ last' = Last("deliver", 0, "none", {s.fd}, <<>>, <<>>)
    /\ UNCHANGED <<unix_pid, next_seq, avail_sockets, socks, msg, built,
                   number, tx, bufp, parse, tcp, vc, sig,
                   dec, opn>>

\* Outcomes of the recvmsg(MSG_PEEK) calls of one nl_sock_recv: the head of
\* the queue, or EAGAIN from a non-blocking call on an empty queue (a
\* blocking one waits), or the ENOBUFS the kernel reports after an overrun.
PeekResults(queue, wait) ==
    {<<SysErr(ENOBUFS)>>}
    \cup (IF queue # <<>>
          THEN {<<SysMsg(Head(queue))>>, <<SysErr(EINTR), SysMsg(Head(queue))>>}
          ELSE IF wait THEN {} ELSE {<<SysErr(EAGAIN)>>})

\* Outcomes of the one-byte recvmsg() calls that follow a successful peek.
ClearResults(peeks) ==
    IF RetryEINTR(peeks).err # 0 THEN {<<SysOk>>}
    ELSE {<<SysOk>>, <<SysErr(EINTR), SysOk>>, <<SysErr(ENOBUFS)>>}

\* nl_sock_recv(s, &bufp, wait).
Recv(s, wait, peeks, clears) ==
    /\ Alive
    /\ s \in socks
    /\ \E r \in {nl_sock_recv_queued(rxq[s.fd], peeks, clears)} :
           /\ rxq' = [rxq EXCEPT ![s.fd] = r.queue]
           /\ bufp' = r.buf
           /\ last' = Last(IF wait THEN "recv_wait" ELSE "recv", r.retval,
                           "none", {s.fd}, <<>>, <<>>)
    /\ UNCHANGED <<unix_pid, next_seq, avail_sockets, socks, msg, built,
                   number, tx, parse, tcp, vc, sig,
                   dec, opn>>

-----------------------------------------------------------------------------
(* Building a Generic Netlink message and parsing it. *)

\* The puts applied to the message: the kind of put, the attribute type and
\* the value (an object representation, or a string with its NUL).
PutRec(kind, type, value) == [kind |-> kind, type |-> type, value |-> value]

PutChoices ==
    {PutRec("U8", 1, v) : v \in {<<7>>, <<255>>}}
    \cup {PutRec("U16", 1, v) : v \in {<<1, 2>>, <<0, 255>>}}
    \cup {PutRec("U32", 1, v) : v \in {<<1, 2, 3, 4>>, <<0, 0, 0, 128>>}}
    \cup {PutRec("U64", 1, v) : v \in {<<1, 2, 3, 4, 5, 6, 7, 8>>,
                                        <<0, 0, 0, 0, 0, 0, 0, 128>>}}
    \cup {PutRec("STRING", 1, v) : v \in {<<0>>, <<97, 0>>, <<97, 98, 0>>}}
    \cup {PutRec("FLAG", 1, <<>>), PutRec("FLAG", 2, <<>>),
          PutRec("STRING", 2, <<97, 0>>)}

\* The put function of the kind of c, applied to m.
ApplyPut(m, c) ==
    CASE c.kind = "U8" -> nl_msg_put_u8(m, c.type, c.value)
      [] c.kind = "U16" -> nl_msg_put_u16(m, c.type, c.value)
      [] c.kind = "U32" -> nl_msg_put_u32(m, c.type, c.value)
      [] c.kind = "U64" -> nl_msg_put_u64(m, c.type, c.value)
      [] c.kind = "STRING" -> nl_msg_put_string(m, c.type, c.value)
      [] OTHER -> nl_msg_put_flag(m, c.type)

\* A policy of four slots that declares slot 1 as 'one' and slot 2 as 'two'.
PolicyOf(one, two) ==
    [i \in 0..3 |-> IF i = 1 THEN one ELSE IF i = 2 THEN two
                                     ELSE Policy("NO_ATTR")]

\* The policies messages are parsed under: slot 1 alone, of every kind; a
\* required slot 1 beside a flag; a flag alone; two required slots; a string
\* beside an optional slot.
ParsePolicies ==
    {PolicyOf(Policy(k), Policy("NO_ATTR")) :
        k \in {"U8", "U16", "U32", "U64", "STRING"}}
    \cup {PolicyOf(Policy("U16"), Policy("FLAG")),
          PolicyOf(Policy("NO_ATTR"), Policy("FLAG")),
          PolicyOf(Policy("U16"), Policy("STRING")),
          PolicyOf(Policy("STRING"), [Policy("U16") EXCEPT !.optional = TRUE])}

\* What the memory behind the tail of the buffer may hold.
BeyondChoices == {Zeros(NLA_HDRLEN), <<0, 2, 0, 0>>}

\* The bytes a received message may hold.
RawBytes == {0, 2, 3, 4, 5}

\* One of the put functions appends an attribute to the message.
ParsePut(c) ==
    /\ parse.out = NoBuf
    /\ Len(parse.puts) < MaxPuts
    /\ Len(parse.puts) = 0 => parse.m.attrs = <<>>
    /\ parse' = [parse EXCEPT !.puts = Append(@, c), !.m = ApplyPut(@, c)]
    /\ UNCHANGED <<unix_pid, next_seq, avail_sockets, socks, msg, last, built,
                   number, tx, rxq, bufp, tcp, vc, sig,
                   dec, opn>>

\* The message is one received from the kernel, which holds one byte more.
ParseRaw(byte) ==
    /\ parse.out = NoBuf
    /\ parse.puts = <<>>
    /\ Len(parse.m.attrs) < MaxRaw
    /\ parse' = [parse EXCEPT !.m = [@ EXCEPT !.size = @ + 1,
                                               !.nlmsg_len = @ + 1,
                                               !.attrs = Append(@, byte)]]
    /\ UNCHANGED <<unix_pid, next_seq, avail_sockets, socks, msg, last, built,
                   number, tx, rxq, bufp, tcp, vc, sig,
                   dec, opn>>

\* nl_policy_parse(parse.m, policy, attrs, 4).
Parse(policy, beyond) ==
    /\ parse.out = NoBuf
    /\ parse' = [parse EXCEPT !.policy = policy, !.beyond = beyond,
                              !.out = <<nl_policy_parse(parse.m, policy, beyond)>>]
    /\ UNCHANGED <<unix_pid, next_seq, avail_sockets, socks, msg, last, built,
                   number, tx, rxq, bufp, tcp, vc, sig,
                   dec, opn>>

\* What the kernel answers to request 'req' in a whole transaction: the
\* outcomes of the recvmsg() calls of the nl_sock_recv that ends it.
TransactAnswers == {"ack", "nak", "reply", "recverr"}

TransactAnswer(kind, req) ==
    CASE kind = "ack" -> <<SysMsg(ErrorReply(req.nlmsg_seq, req.nlmsg_pid, 0))>>
      [] kind = "nak" -> <<SysMsg(ErrorReply(req.nlmsg_seq, req.nlmsg_pid, -EINVAL))>>
      [] kind = "reply" -> <<SysMsg(GenlReply(req.nlmsg_seq, req.nlmsg_pid, <<>>))>>
      [] OTHER -> <<SysErr(ENOMEM)>>

\* nl_sock_transact(sock, request, &reply) on the buffer, the reply being
\* deleted by the caller.
Transact(s, k, snd, ans) ==
    /\ Alive
    /\ s \in socks
    /\ msg # NoBuf
    /\ \E t \in {nl_sock_transact(s.fd, msg[1],
                                    Script(k, snd, TransactAnswer(ans, msg[1])))} :
           /\ t.pc = "done"
           /\ msg' = t.request
           /\ last' = Last("transact", t.retval, "none", {s.fd}, t.sent, <<>>)
    /\ UNCHANGED <<unix_pid, next_seq, avail_sockets, socks, number, tx>>

-----------------------------------------------------------------------------
(* nl_sock_transact, one system call at a time. *)

\* The call: nl_sock_transact(sock, request, &reply) on the buffer.
TransactCall(s) ==
    /\ Alive
    /\ tx.pc = "idle"
    /\ s \in socks
    /\ msg # NoBuf
    /\ tx' = transact_call(s.fd, msg[1])
    /\ UNCHANGED <<unix_pid, next_seq, avail_sockets, socks, msg, last, number>>

\* Outcomes of the send() calls of the nl_sock_send at the label send: .
TransactSendResults ==
    {<<SysOk>>, <<SysErr(EINTR), SysOk>>, <<SysErr(EINVAL)>>,
     <<SysErr(ENOBUFS)>>, <<SysErr(EINTR), SysErr(EAGAIN)>>}

TransactSend(results) ==
    /\ tx.pc = "send"
    /\ tx' = transact_send(tx, results)
    /\ UNCHANGED <<unix_pid, next_seq, avail_sockets, socks, msg, last, number>>

\* Outcomes of the recvmsg() calls of the nl_sock_recv at the label recv:
\* that end the wait: a failure, a datagram that is no Netlink message, or a
\* message that echoes the request's sequence number.
TransactRecvResults(t) ==
    LET seq == t.seq
        pid == t.request[1].nlmsg_pid
    IN  {<<SysErr(ENOMEM)>>, <<SysErr(EINTR), SysErr(EINVAL)>>,
         <<SysMsg([ErrorReply(seq, pid, 0) EXCEPT !.size = NLMSG_HDRLEN - 8])>>,
         <<SysMsg([ErrorReply(seq, pid, 0) EXCEPT !.nlmsg_len = NLMSG_HDRLEN - 1])>>,
         <<SysMsg([ErrorReply(seq, pid, -EINVAL) EXCEPT
                      !.nlmsg_len = NLMSG_HDRLEN, !.size = NLMSG_HDRLEN])>>,
         <<SysMsg(GenlReply(seq, pid, <<>>))>>,
         <<SysErr(EINTR), SysMsg(GenlReply(seq, pid, <<U16Attr(CTRL_ATTR_FAMILY_ID, 4660)>>))>>}
        \cup {<<SysMsg(ErrorReply(seq, pid, e))>> :
                e \in {0, -EAGAIN, -EINVAL, -ENOBUFS, EINVAL, INT_MIN}}

\* Messages that echo another sequence number.
TransactStrayResults(t) ==
    LET seq == (t.seq + 1) % SeqMod
        pid == t.request[1].nlmsg_pid
    IN  {<<SysMsg(ErrorReply(seq, pid, 0))>>, <<SysMsg(ErrorReply(seq, pid, -EINVAL))>>,
         <<SysMsg(GenlReply(seq, pid, <<>>))>>}

TransactRecv(results) ==
    /\ tx.pc = "recv"
    /\ tx' = transact_recv(tx, results)
    /\ UNCHANGED <<unix_pid, next_seq, avail_sockets, socks, msg, last, number>>

\* The return to the caller, who deletes the reply.
TransactReturn ==
    /\ tx.pc = "done"
    /\ msg' = tx.request
    /\ last' = Last("transact", tx.retval, "none", {tx.fd}, tx.sent, <<>>)
    /\ tx' = TxIdle
    /\ UNCHANGED <<unix_pid, next_seq, avail_sockets, socks, number>>

-----------------------------------------------------------------------------
(* Specifications. *)

\* A call whose built headers are not logged.
Unlogged(A) == A /\ UNCHANGED <<built, rxq, bufp, parse, tcp, vc, sig,
                   dec, opn>>

\* A call whose built headers are appended to the log, while it has room.
Logged(A) ==
    /\ A
    /\ Len(built) + Len(last'.built) <= MaxHist
    /\ built' = built \o last'.built
    /\ UNCHANGED <<rxq, bufp, parse, tcp, vc, sig,
                   dec, opn>>

\* The socket layer: sockets come and go, families are looked up.
Next ==
    \/ \E a \in CreateArgs, env \in CreateEnvs : Unlogged(Create(a, env))
    \/ \E s \in socks : Unlogged(Destroy(s))
    \/ number = 0 /\ \E env \in LookupEnvs : Unlogged(Lookup(number, env))
    \/ number # 0 /\ Unlogged(Lookup(number, CachedEnv))
    \/ Unlogged(NewCache)

Spec == Init /\ [][Next]_vars

\* The message layer: a message is built and sent on sockets that were
\* created without a failure of the environment.
NextMsg ==
    \/ \E a \in CreateArgs, env \in CreateEnvsOk :
          /\ Cardinality(socks) < MaxMsgSocks
          /\ Unlogged(Create(a, env))
    \/ \E s \in socks : Unlogged(Destroy(s))
    \/ \E s \in socks : Unlogged(PutNlmsghdr(s, GENL_ID_CTRL, NLM_F_REQUEST))
    \/ Unlogged(PutAttr(1, Zeros(4)))
    \/ Unlogged(Uninit)
    \/ \E s \in socks, wait \in BOOLEAN :
          \E results \in SendResults(wait) : Unlogged(Send(s, wait, results))
    \/ \E s \in socks, wait \in BOOLEAN :
          \E results \in SendOutcomes(nl_sock_sendv_flags(wait)) :
             Unlogged(Sendv(s, wait, results))
    \/ \E s \in socks, k \in {0, MaxEnobufs} :
          \E snd \in {<<SysOk>>, <<SysErr(EINVAL)>>}, ans \in TransactAnswers :
             Unlogged(Transact(s, k, snd, ans))

SpecMsg == Init /\ [][NextMsg]_vars

\* The receive path: the kernel queues datagrams and the program receives
\* them.
NextRecv ==
    \/ \E a \in CreateArgs, env \in {e \in CreateEnvsOk : e.clock = 0} :
          /\ Cardinality(socks) < MaxMsgSocks
          /\ Unlogged(Create(a, env))
    \/ \E s \in socks, d \in RecvDatagrams : Deliver(s, d)
    \/ \E s \in socks, wait \in BOOLEAN :
          \E peeks \in PeekResults(rxq[s.fd], wait) :
             \E clears \in ClearResults(peeks) : Recv(s, wait, peeks, clears)

SpecRecv == Init /\ [][NextRecv]_vars

\* Messages are built by the put functions, or received, and parsed.
NextParse ==
    \/ \E c \in PutChoices : ParsePut(c)
    \/ \E byte \in RawBytes : ParseRaw(byte)
    \/ \E policy \in ParsePolicies, beyond \in BeyondChoices : Parse(policy, beyond)

\* The process whose PID is 1, before it has done anything.
InitOne == Init /\ unix_pid = 1

SpecParse == InitOne /\ [][NextParse]_vars

\* A TCP vconn whose peer sends frames, which arrive in pieces.
NextTcp ==
    \/ \E length \in FrameLengths : PeerSend(length)
    \/ \E k \in {3, OFP_HEADER_SIZE + 1} : PeerSendPart(k)
    \/ PeerClose
    \/ \E p1 \in ReadPlans, p2 \in ReadPlans : TcpRecv(<<p1, p2>>)

SpecTcp == InitOne /\ [][NextTcp]_vars

\* A TCP vconn whose owner sends messages, which the socket accepts in
\* pieces.
NextTcpSend ==
    \/ \E buffer \in SendMsgs, plan \in WritePlans : TcpSend(buffer, plan)
    \/ \E revents \in ReventsChoices, plan \in WritePlans :
          TcpPostpoll(revents, plan)
    \/ \E want \in WantChoices, events \in EventsChoices :
          TcpPrepoll(want, events)

SpecTcpSend == InitOne /\ [][NextTcpSend]_vars

\* The send path with the caller's loop, which keeps running, the socket
\* becoming writable again and again.
NextTcpFlush ==
    \/ \E buffer \in SendMsgs, plan \in WritePlans : TcpSend(buffer, plan)
    \/ \E want \in WantChoices, ready \in ReventsChoices,
          plan \in WritePlans : PollLoop(want, ready, plan)

SpecTcpFlush ==
    InitOne /\ [][NextTcpFlush]_vars /\ WF_vars(PollLoopWritable)

\* A TCP vconn that receives and sends until its owner closes it.
NextVconn ==
    \/ PeerSend(OFP_HEADER_SIZE + 3)
    \/ \E p1 \in {3, OFP_HEADER_SIZE, -EINTR} :
          TcpRecv(<<p1, OFP_HEADER_SIZE + OFP_HEADER_SIZE>>)
    \/ \E plan \in {1, 2, -EINTR} : TcpSend(<<4, 5>>, plan)
    \/ \E plan \in {1, -EINTR} : TcpPostpoll({"POLLOUT"}, plan)
    \/ TcpClose

SpecVconn == InitOne /\ [][NextVconn]_vars

\* A process that blocks and unblocks its termination signals.
NextSignal ==
    \/ \E mask \in SUBSET Signals : SigStart(mask)
    \/ FatalSignalBlock
    \/ FatalSignalUnblock

SpecSignal == InitOne /\ [][NextSignal]_vars

\* A process that registers hooks and files while termination signals
\* arrive.
NextHooks ==
    \/ \E mask \in {{}, {"SIGHUP"}} : SigStart(mask)
    \/ \E func \in HookFuncs : AddHookCall(func)
    \/ \E file \in FileNames : AddFileCall(file)
    \/ \E file \in FileNames : RemoveFileCall(file)
    \/ MainStep
    \/ CallerBlock
    \/ CallerUnblock
    \/ \E sig_nr \in {"SIGTERM"} : SignalArrive(sig_nr)
    \/ \E s \in sig.pending : SignalDeliver(s)

SpecHooks == InitOne /\ [][NextHooks]_vars

\* Vconns are opened, accepted and closed.
NextOpen ==
    \/ \E fail \in TcpOpenFails, errno \in OpenErrnos : TcpOpen(fail, errno)
    \/ \E fail \in PtcpOpenFails, errno \in OpenErrnos : PtcpOpen(fail, errno)
    \/ \E v \in opn.vconns, fail \in PtcpAcceptFails, errno \in OpenErrnos :
          PtcpAccept(v, fail, errno)
    \/ \E v \in opn.vconns : VconnClose(v)

SpecOpen == InitOne /\ [][NextOpen]_vars

\* Messages arrive and are tested for being error messages.
NextNlmsgerr ==
    \/ \E type \in DecTypes, size \in DecSizes, error \in DecErrors :
          DecReceive(type, size, error)
    \/ DecNlmsgerr

SpecNlmsgerr == InitOne /\ [][NextNlmsgerr]_vars

\* The sequence counter: headers are built on sockets that come and go, and
\* every header built is logged.
NextSeqLog ==
    \/ \E a \in CreateArgs, env \in CreateEnvsOk : Logged(Create(a, env))
    \/ \E s \in socks : Logged(Destroy(s))
    \/ \E s \in socks : Logged(PutNlmsghdr(s, GENL_ID_CTRL, NLM_F_REQUEST))
    \/ Logged(Uninit)

SpecSeq == Init /\ [][NextSeqLog]_vars

\* One transaction at a time on one socket: the request is built, then each
\* system call of nl_sock_transact is a step.
NextTransact ==
    \/ \E a \in CreateArgs, env \in CreateEnvsOk :
          /\ tx.pc = "idle"
          /\ socks = {}
          /\ Unlogged(Create(a, env))
    \/ \E s \in socks, flags \in {NLM_F_REQUEST, NLM_F_REQUEST + NLM_F_ACK} :
          /\ tx.pc = "idle"
          /\ Unlogged(PutNlmsghdr(s, GENL_ID_CTRL, flags))
    \/ tx.pc = "idle" /\ Unlogged(PutAttr(1, Zeros(4)))
    \/ tx.pc = "idle" /\ Unlogged(Uninit)
    \/ \E s \in socks : Unlogged(TransactCall(s))
    \/ \E results \in TransactSendResults : Unlogged(TransactSend(results))
    \/ /\ tx.pc = "recv"
       /\ \E results \in TransactRecvResults(tx) : Unlogged(TransactRecv(results))
    \/ /\ tx.pc = "recv"
       /\ tx.stray < MaxStray
       /\ \E results \in TransactStrayResults(tx) : Unlogged(TransactRecv(results))
    \/ /\ tx.pc = "recv"
       /\ tx.enobufs < MaxEnobufs
       /\ Unlogged(TransactRecv(<<SysErr(ENOBUFS)>>))
    \/ Unlogged(TransactReturn)

SpecTransact == Init /\ [][NextTransact]_vars

\* A system call of a running nl_sock_transact returns: the send() of
\* nl_sock_send, with any outcome; or the recvmsg() of nl_sock_recv, with a
\* failure or a message that carries the request's sequence number.
TransactSyscall ==
    \/ \E results \in TransactSendResults : Unlogged(TransactSend(results))
    \/ /\ tx.pc = "recv"
       /\ \E results \in TransactRecvResults(tx) : Unlogged(TransactRecv(results))

\* Transactions of requests that are a bare header, on one socket.
NextTransactRun ==
    \/ \E env \in CreateEnvsOk :
          /\ tx.pc = "idle"
          /\ socks = {}
          /\ Unlogged(Create([multicast_group |-> 0, so_sndbuf |-> 0,
                              so_rcvbuf |-> 0], env))
    \/ \E s \in socks :
          /\ tx.pc = "idle"
          /\ Unlogged(PutNlmsghdr(s, GENL_ID_CTRL, NLM_F_REQUEST))
    \/ tx.pc = "idle" /\ Unlogged(Uninit)
    \/ \E s \in socks : Unlogged(TransactCall(s))
    \/ TransactSyscall
    \/ /\ tx.pc = "recv"
       /\ tx.stray < MaxStray
       /\ \E results \in TransactStrayResults(tx) : Unlogged(TransactRecv(results))
    \/ /\ tx.pc = "recv"
       /\ tx.enobufs < MaxEnobufs
       /\ Unlogged(TransactRecv(<<SysErr(ENOBUFS)>>))
    \/ Unlogged(TransactReturn)

\* The same with a fair kernel: ENOBUFS and messages with another sequence
\* number come at most MaxEnobufs and MaxStray times in a call, and the
\* system calls return.
SpecTransactFair ==
    InitOne /\ [][NextTransactRun]_vars /\ WF_vars(TransactSyscall)

\* The same without the fairness.
SpecTransactRun == InitOne /\ [][NextTransactRun]_vars

-----------------------------------------------------------------------------
(* Properties of nl_sock_transact, under SpecTransact. *)

\* The reply is an ACK: an NLMSG_ERROR message with room for the nlmsgerr and
\* error 0.
IsAck(m) ==
    /\ m.nlmsg_type = NLMSG_ERROR
    /\ m.size >= NLMSG_HDRLEN + NLMSGERR_SIZE
    /\ m.error = 0

\* C1: every receive that fails with ENOBUFS is followed by another send of
\* the same request: the datagrams sent are all the request as it stands
\* (same bytes, same sequence number, NLM_F_ACK set), there is one send for
\* the first attempt and one for each ENOBUFS, and k ENOBUFS followed by a
\* matching ACK end the call with k+1 sends and the return value 0.
C1_ResendOnEnobufs ==
    /\ \A i \in DOMAIN tx.sent :
          /\ tx.sent[i] = Dgram(tx.fd, tx.request[1])
          /\ tx.sent[i].data.nlmsg_seq = tx.seq
          /\ BitAnd(tx.sent[i].data.nlmsg_flags, NLM_F_ACK) = NLM_F_ACK
    /\ tx.pc = "send" => Len(tx.sent) = tx.enobufs
    /\ tx.pc = "recv" => Len(tx.sent) = tx.enobufs + 1
    /\ (tx.pc = "done" /\ tx.rx # NoBuf) => Len(tx.sent) = tx.enobufs + 1
    /\ (tx.pc = "done" /\ tx.rx # NoBuf /\ IsAck(tx.rx[1])) => tx.retval = 0

\* The receive failed with ENOBUFS as often as the bound allows, then came a
\* matching ACK.
C1_Witness ==
    /\ tx.pc = "done"
    /\ tx.enobufs = MaxEnobufs
    /\ Len(tx.sent) = MaxEnobufs + 1
    /\ tx.rx # NoBuf
    /\ IsAck(tx.rx[1])
    /\ tx.retval = 0

\* C2: a received message whose sequence number differs from the request's is
\* dropped without a resend and is never handed to the caller; the first
\* message with the request's sequence number ends the call and alone
\* decides its outcome.
C2_StrayDiscarded ==
    [][/\ (tx.pc = "recv" /\ tx'.stray > tx.stray) =>
              /\ tx'.pc = "recv"
              /\ tx'.sent = tx.sent
              /\ tx'.rx = NoBuf
              /\ tx'.replyp = NoBuf
       /\ tx'.rx # NoBuf =>
              /\ tx'.rx[1].nlmsg_seq = tx'.seq
              /\ tx'.pc = "done"
              /\ tx'.replyp \in {NoBuf, tx'.rx}
              /\ tx'.retval = IF tx'.rx[1].nlmsg_type # NLMSG_ERROR THEN 0
                              ELSE IF nl_msg_nlmsgerr(tx'.rx[1]).code = EAGAIN THEN EPROTO
                              ELSE nl_msg_nlmsgerr(tx'.rx[1]).code
              /\ (tx'.rx[1].nlmsg_type # NLMSG_ERROR => tx'.replyp = tx'.rx)]_vars

\* Non-matching messages came first, as many as the bound allows, then a
\* matching reply, and the request went out once.
C2_Witness ==
    /\ tx.pc = "done"
    /\ tx.stray = MaxStray
    /\ tx.replyp # NoBuf
    /\ tx.replyp = tx.rx
    /\ Len(tx.sent) = 1

\* C3: nl_sock_transact returns 0 exactly when it has stored a reply in
\* *replyp.
C3_ZeroIffReply ==
    tx.pc = "done" => (tx.retval = 0 <=> tx.replyp # NoBuf)

\* C4: a matching NLMSG_ERROR reply with decoded code e makes the call return
\* e, except that EAGAIN is returned as EPROTO; an error reply never makes the
\* call return EAGAIN.
C4_ErrorReplyCode ==
    (tx.pc = "done" /\ tx.rx # NoBuf /\ tx.rx[1].nlmsg_type = NLMSG_ERROR) =>
        /\ nl_msg_nlmsgerr(tx.rx[1]).code # EAGAIN =>
              tx.retval = nl_msg_nlmsgerr(tx.rx[1]).code
        /\ nl_msg_nlmsgerr(tx.rx[1]).code = EAGAIN => tx.retval = EPROTO
        /\ tx.retval # EAGAIN

\* The kernel answered with the error -EAGAIN.
C4_Witness ==
    /\ tx.pc = "done"
    /\ tx.rx # NoBuf
    /\ tx.rx[1].nlmsg_type = NLMSG_ERROR
    /\ tx.rx[1].error = -EAGAIN
    /\ tx.retval = EPROTO

\* C5: a failed send ends the call at once with that error, no receive being
\* made; a receive that fails with anything but ENOBUFS ends the call with
\* that error, the request not being sent again.
C5_FailuresReturned ==
    [][/\ (tx.pc = "send" /\ tx'.pc # "idle" /\ tx'.err # 0) =>
              /\ tx'.pc = "done"
              /\ tx'.retval = tx'.err
              /\ tx'.recvs = tx.recvs
              /\ tx'.sent = tx.sent
              /\ tx'.replyp = NoBuf
       /\ (tx.pc = "recv" /\ tx'.pc # "idle" /\ tx'.err \notin {0, ENOBUFS}) =>
              /\ tx'.pc = "done"
              /\ tx'.retval = tx'.err
              /\ tx'.sent = tx.sent
              /\ tx'.replyp = NoBuf]_vars

\* The request was sent again after an ENOBUFS and that send failed, with
\* ENOBUFS.
C5_Witness ==
    /\ tx.pc = "done"
    /\ tx.enobufs = 1
    /\ tx.recvs = 1
    /\ Len(tx.sent) = 1
    /\ tx.err = ENOBUFS
    /\ tx.retval = ENOBUFS

-----------------------------------------------------------------------------
(* Properties of the sequence numbers. *)

\* a precedes b in the order of uint32_t sequence numbers: b is reached from
\* a by fewer than half the number range of increments, and at least one.
SeqBefore(a, b) == (b - a + SeqMod) % SeqMod \in 1..((SeqMod - 1) \div 2)

\* C6 as the specification has it, under SpecMsg: the datagrams a call puts
\* on the wire carry strictly increasing sequence numbers, in the order they
\* are sent.
C6_WireSeqIncreasing ==
    \A i, j \in DOMAIN last.out :
        i < j => SeqBefore(last.out[i].data.nlmsg_seq, last.out[j].data.nlmsg_seq)

\* C6 as the code has it, under SpecMsg: a message goes out with the sequence
\* number its header was built with.  nl_sock_send and nl_sock_transact leave
\* nlmsg_seq as it is, so the sends of one transaction, and later sends of
\* the same buffer, carry one and the same number.
C6_WireSeqIsBuilt ==
    [][last'.out # <<>> =>
          /\ msg # NoBuf
          /\ msg'[1].nlmsg_seq = msg[1].nlmsg_seq
          /\ \A i \in DOMAIN last'.out :
                last'.out[i].data.nlmsg_seq = msg[1].nlmsg_seq]_vars

\* A transaction that sent its request more than once.
C6_Witness ==
    /\ last.op = "transact"
    /\ last.retval = 0
    /\ Len(last.out) = MaxEnobufs + 1

\* C7, under SpecSeq: any two headers built carry different sequence numbers
\* (the log is shorter than the number range).
C7_SeqUnique ==
    \A i, j \in DOMAIN built : i # j => built[i] # built[j]

-----------------------------------------------------------------------------
(* Properties of the Netlink PIDs, under Spec. *)

\* C8: no two live sockets have the same Netlink PID.
C8_PidsUnique ==
    \A s1, s2 \in socks : s1.pid = s2.pid => s1 = s2

\* Every slot is taken, the family has been looked up, and the latest
\* socket has just been created.
C8_Witness ==
    /\ Cardinality(socks) = MAX_SOCKETS
    /\ Cardinality({s.pid : s \in socks}) = MAX_SOCKETS
    /\ last.op = "create"
    /\ last.retval = 0
    /\ number > 0

\* C9: with MAX_SOCKETS sockets live, nl_sock_create fails and leaves the
\* bitmap and the sockets as they were, the error being ENOBUFS whenever
\* malloc() and socket() succeeded; right after a nl_sock_destroy, a
\* nl_sock_create that the environment does not fail returns a socket with a
\* PID no live socket has.
C9_PidExhaustion ==
    [][/\ (last'.op = "create" /\ Cardinality(socks) = MAX_SOCKETS) =>
              /\ last'.retval # 0
              /\ socks' = socks
              /\ avail_sockets' = avail_sockets
              /\ (last'.fail \notin {"malloc", "socket"} => last'.retval = ENOBUFS)
       /\ (last.op = "destroy" /\ last'.op = "create" /\ last'.fail = "none") =>
              /\ last'.retval = 0
              /\ \E s \in socks' :
                    /\ socks' = socks \cup {s}
                    /\ \A o \in socks : o.pid # s.pid
                    /\ SlotOfPid(s.pid) \in avail_sockets' \ avail_sockets]_vars

\* nl_sock_create has just failed for want of a PID.
C9_Witness ==
    /\ last.op = "create"
    /\ last.fail = "none"
    /\ last.retval = ENOBUFS
    /\ Cardinality(socks) = MAX_SOCKETS

\* C28: the low PROCESS_BITS bits of the PID of every live socket are
\* those of the Unix process id, and the slot in its high bits is marked in
\* the bitmap; and a nl_sock_create that succeeds gives the new socket the
\* lowest slot that was free.
C28_PidLayout ==
    /\ [](\A s \in socks :
             /\ s.pid % MAX_PROCESSES = unix_pid % MAX_PROCESSES
             /\ s.pid \div MAX_PROCESSES \in avail_sockets
             /\ s.pid \div MAX_PROCESSES < MAX_SOCKETS)
    /\ [][(last'.op = "create" /\ last'.retval = 0)
          => \E s \in socks' :
                /\ socks' = socks \cup {s}
                /\ s \notin socks
                /\ s.pid \div MAX_PROCESSES \notin avail_sockets
                /\ \A j \in 0..(MAX_SOCKETS - 1) :
                      j < s.pid \div MAX_PROCESSES => j \in avail_sockets]_vars

\* A process whose id fills the low 22 bits has every slot taken, the
\* highest one by the socket created last.
C28_Witness ==
    /\ unix_pid = PROCESS_MASK
    /\ last.op = "create"
    /\ last.retval = 0
    /\ Cardinality(socks) = MAX_SOCKETS
    /\ \E s \in socks :
          /\ s.pid \div MAX_PROCESSES = MAX_SOCKETS - 1
          /\ \A o \in socks : o.fd <= s.fd

-----------------------------------------------------------------------------
(* Properties of nl_sock_send, under SpecMsg. *)

\* C10: every datagram sent by nl_sock_send, directly or within
\* nl_sock_transact, has nlmsg_len equal to the number of bytes given to
\* send().
C10_LenFinalized ==
    \A i \in DOMAIN last.out : last.out[i].data.nlmsg_len = last.out[i].nbytes

\* A message with an attribute was sent: before the call nlmsg_len held 0,
\* or the size the message had at an earlier send.
C10_Witness ==
    /\ last.op = "send"
    /\ last.retval = 0
    /\ Len(last.out) = 1
    /\ last.out[1].nbytes = NLMSG_HDRLEN + NLA_ALIGN(NLA_HDRLEN + 4)
    /\ last.out[1].data.nlmsg_len = last.out[1].nbytes

-----------------------------------------------------------------------------
(* Properties of nl_sock_sendv, under SpecMsg. *)

\* C11: nl_sock_sendv called with wait = true never returns EAGAIN: a full
\* send buffer makes it wait, and only a call with wait = false reports it.
C11_WaitNeverEagain ==
    last.op = "sendv_wait" => last.retval # EAGAIN

-----------------------------------------------------------------------------
(* Properties of nl_sock_recv, under SpecRecv. *)

\* C12: a successful nl_sock_recv returns the whole datagram at the head of
\* the socket's queue, of whatever length, in a buffer of that size, and
\* removes exactly that datagram from the queue, so that the next
\* nl_sock_recv returns the one that followed it.
C12_RecvTakesHead ==
    [][\A fd \in Fds :
          (last'.op \in {"recv", "recv_wait"} /\ last'.sock = {fd}
             /\ last'.retval = 0)
          => /\ rxq[fd] # <<>>
             /\ bufp' = <<Head(rxq[fd])>>
             /\ bufp'[1].size = Head(rxq[fd]).size
             /\ rxq'[fd] = Tail(rxq[fd])]_vars

\* The part of C12 that holds: the buffer of a successful nl_sock_recv is
\* the whole datagram at the head of the queue.
RecvReturnsHead ==
    [][\A fd \in Fds :
          (last'.op \in {"recv", "recv_wait"} /\ last'.sock = {fd}
             /\ last'.retval = 0)
          => /\ rxq[fd] # <<>>
             /\ bufp' = <<Head(rxq[fd])>>
             /\ rxq'[fd] \in {rxq[fd], Tail(rxq[fd])}]_vars

-----------------------------------------------------------------------------
(* Properties of nl_lookup_genl_family, under Spec. *)

\* C13: a call of nl_lookup_genl_family that finds the cache 0 and returns
\* leaves it non-zero and returns 0 for a positive cache and the negated
\* cache otherwise; a call that finds the cache non-zero leaves the cache,
\* the sockets, the PID slots and the sequence counter as they were, sends
\* nothing, builds no header, and returns what the cache stands for, which
\* is what the first call returned, whether that was success or failure.
C13_LookupOnce ==
    [][last'.op = "lookup"
       => IF number = 0
          THEN /\ number' # 0
               /\ last'.retval = (IF number' > 0 THEN 0 ELSE -number')
          ELSE /\ number' = number
               /\ last'.retval = (IF number > 0 THEN 0 ELSE -number)
               /\ socks' = socks
               /\ avail_sockets' = avail_sockets
               /\ next_seq' = next_seq
               /\ last'.out = <<>>
               /\ last'.built = <<>>]_vars

\* A later call was made with a cache that holds a failure.
C13_Witness ==
    /\ last.op = "lookup"
    /\ last.fail = "cached"
    /\ number < 0
    /\ last.retval = -number

-----------------------------------------------------------------------------
(* Properties of nl_policy_parse and the put functions, under SpecParse. *)

\* The slots of a policy that are required.
RequiredSlots(policy) ==
    {i \in DOMAIN policy : /\ policy[i].type # "NO_ATTR"
                           /\ policy[i].type # "FLAG"
                           /\ ~policy[i].optional}

\* The payload length of the attribute stored at offset o, as the parser
\* read it.
StoredLen(o) ==
    U16At(GenlPayload(parse.m), parse.beyond, o) - NLA_HDRLEN

\* The payload of the attribute stored at offset o ends in a NUL and holds
\* no earlier one.
StoredIsString(o) ==
    /\ StoredLen(o) >= 1
    /\ ByteAt(GenlPayload(parse.m), parse.beyond, o + NLA_HDRLEN + StoredLen(o) - 1) = 0
    /\ \A k \in 0..(StoredLen(o) - 2) :
          ByteAt(GenlPayload(parse.m), parse.beyond, o + NLA_HDRLEN + k) # 0

\* C14: whenever nl_policy_parse returns true, every required slot of the
\* policy (not absent, not a flag, not optional) has an attribute stored
\* whose payload length lies in the range declared for the slot, and every
\* stored string attribute ends in a NUL and holds no earlier NUL.
C14_RequiredPresent ==
    (parse.out # NoBuf /\ parse.out[1].ok)
    => /\ \A i \in RequiredSlots(parse.policy) :
             /\ parse.out[1].attrs[i] # NoBuf
             /\ StoredLen(parse.out[1].attrs[i][1])
                   >= attr_len_range(parse.policy[i].type)[1]
             /\ StoredLen(parse.out[1].attrs[i][1])
                   <= attr_len_range(parse.policy[i].type)[2]
       /\ \A i \in DOMAIN parse.policy :
             (parse.policy[i].type = "STRING" /\ parse.out[1].attrs[i] # NoBuf)
             => StoredIsString(parse.out[1].attrs[i][1])

\* The part of C14 that holds: what nl_policy_parse stores is in the range
\* of its slot, and a stored string is one.
StoredWellFormed ==
    (parse.out # NoBuf /\ parse.out[1].ok)
    => \A i \in DOMAIN parse.policy :
          parse.out[1].attrs[i] # NoBuf
          => /\ StoredLen(parse.out[1].attrs[i][1])
                   >= attr_len_range(parse.policy[i].type)[1]
             /\ StoredLen(parse.out[1].attrs[i][1])
                   <= attr_len_range(parse.policy[i].type)[2]
             /\ parse.policy[i].type = "STRING"
                   => StoredIsString(parse.out[1].attrs[i][1])

\* C15: whatever bytes a received buffer holds, nl_policy_parse reads only
\* bytes of the buffer's payload, and it returns false when the attribute
\* it starts with has nla_len < NLA_HDRLEN.
C15_ReadsInside ==
    parse.out # NoBuf
    => /\ ~parse.out[1].oob
       /\ (Len(GenlPayload(parse.m)) >= 2
             /\ HostU16(GenlPayload(parse.m)) < NLA_HDRLEN)
          => ~parse.out[1].ok

\* The part of C15 that holds: a first attribute with nla_len < NLA_HDRLEN
\* makes nl_policy_parse return false.
ShortAttrRejected ==
    (parse.out # NoBuf /\ Len(GenlPayload(parse.m)) >= 2
       /\ HostU16(GenlPayload(parse.m)) < NLA_HDRLEN)
    => ~parse.out[1].ok

\* The payload nl_attr_get_u8 .. nl_attr_get_u64 or nl_attr_get_string
\* return for the attribute stored at offset o, by the kind of its slot.
Recovered(kind, o) ==
    CASE kind = "U8" -> nl_attr_get_unspec(GenlPayload(parse.m), o, 1)
      [] kind = "U16" -> nl_attr_get_unspec(GenlPayload(parse.m), o, 2)
      [] kind = "U32" -> nl_attr_get_unspec(GenlPayload(parse.m), o, 4)
      [] kind = "U64" -> nl_attr_get_unspec(GenlPayload(parse.m), o, 8)
      [] OTHER -> nl_attr_get_string(GenlPayload(parse.m), o)

\* The message was built by puts of which exactly the i-th has type T, the
\* policy declares T alone, with the kind of that put, and the message was
\* parsed under it.
PutAndParsed(i, T) ==
    /\ parse.out # NoBuf
    /\ i \in DOMAIN parse.puts
    /\ parse.puts[i].type = T
    /\ \A j \in DOMAIN parse.puts : j # i => parse.puts[j].type # T
    /\ parse.puts[i].kind # "FLAG"
    /\ parse.policy = [k \in DOMAIN parse.policy |->
                          IF k = T THEN Policy(parse.puts[i].kind)
                          ELSE Policy("NO_ATTR")]

\* C16: a message built with nl_msg_put_u8/u16/u32/u64(T, v) or
\* nl_msg_put_string(T, s), with attributes of other types before or after
\* it, parses under the policy that declares T with the same kind, and the
\* attribute stored for T has exactly the payload v (for a string exactly s
\* with its NUL, and a payload length of strlen(s) + 1).
C16_PutParseRoundTrip ==
    \A i \in 1..MaxPuts, T \in 1..3 :
       PutAndParsed(i, T)
       => /\ parse.out[1].ok
          /\ ~parse.out[1].aborted
          /\ parse.out[1].attrs[T] # NoBuf
          /\ nl_attr_get_size(GenlPayload(parse.m), parse.out[1].attrs[T][1])
                = Len(parse.puts[i].value)
          /\ Recovered(parse.puts[i].kind, parse.out[1].attrs[T][1])
                = parse.puts[i].value

\* A string of two characters was put behind an attribute of another type
\* whose payload needs padding, and the message was parsed.
C16_Witness ==
    /\ PutAndParsed(2, 1)
    /\ parse.puts[2] = PutRec("STRING", 1, <<97, 98, 0>>)
    /\ parse.puts[1] = PutRec("STRING", 2, <<97, 0>>)
    /\ parse.out[1].ok

-----------------------------------------------------------------------------
(* Properties of tcp_recv, under SpecTcp. *)

\* C17: every buffer tcp_recv returns with result 0 has the size that the
\* length field of the ofp_header at its start declares, in network byte
\* order, whatever the stream holds and however it arrives.
C17_SizeIsLength ==
    /\ (tcp.calls /\ tcp.out.retval = 0)
       => /\ tcp.out.bufferp # NoBuf
          /\ Len(tcp.out.bufferp[1]) = OfpLength(tcp.out.bufferp[1])
    /\ \A i \in DOMAIN tcp.got : Len(tcp.got[i]) = OfpLength(tcp.got[i])

\* tcp_recv has returned a frame of header and three bytes that arrived
\* byte by byte at the end.
C17_Witness ==
    /\ tcp.calls
    /\ tcp.out.retval = 0
    /\ tcp.plans = <<1, 1>>
    /\ Len(tcp.out.bufferp[1]) = OFP_HEADER_SIZE + 3

RECURSIVE Flatten(_)
Flatten(ss) == IF ss = <<>> THEN <<>> ELSE Head(ss) \o Flatten(Tail(ss))

\* The bytes held for the vconn by the pointer rxbuf.
Buffered(rxbuf) == IF rxbuf = NoBuf THEN <<>> ELSE rxbuf[1]

\* The step is a call of tcp_recv.
TcpRecvStep ==
    tcp'.calls /\ tcp'.frames = tcp.frames /\ tcp'.closed = tcp.closed /\ vc' = vc

\* Every frame the peer has sent carries a payload.
AllWithPayload ==
    /\ ~tcp.cut
    /\ \A i \in DOMAIN tcp.frames : OfpLength(tcp.frames[i]) > OFP_HEADER_SIZE

\* C18: while the peer sends frames that carry a payload, whatever pieces
\* they arrive in and whichever calls return EAGAIN in between, a call of
\* tcp_recv that returns 0 returns the next frame of the stream, exactly its
\* bytes, and no other call returns a buffer; the frames returned, the
\* bytes kept in rxbuf and the bytes still to be read always make up the
\* stream sent, so that nothing is lost, duplicated or moved; a call fails
\* with EAGAIN, EINTR or EOF only; and a call during which the rest of the next
\* frame arrives returns it.
C18_FramesInOrder ==
    [][(TcpRecvStep /\ AllWithPayload)
       => /\ IF tcp'.out.retval = 0
             THEN /\ Len(tcp.got) < Len(tcp.frames)
                  /\ tcp'.out.bufferp = <<tcp.frames[Len(tcp.got) + 1]>>
                  /\ tcp'.got = Append(tcp.got, tcp.frames[Len(tcp.got) + 1])
             ELSE /\ tcp'.got = tcp.got
                  /\ tcp'.out.bufferp = NoBuf
          /\ Flatten(tcp'.got) \o Buffered(tcp'.rxbuf) \o tcp'.rest
                = Flatten(tcp.frames)
          /\ tcp'.out.retval \in {0, EAGAIN, EOF, EINTR}
          /\ (Len(tcp.got) < Len(tcp.frames)
                /\ \A k \in DOMAIN tcp'.plans : tcp'.plans[k] >= OFP_HEADER_SIZE)
             => tcp'.out.retval = 0]_vars

\* Two frames with payload were returned, the second by a call that got it
\* byte by byte.
C18_Witness ==
    /\ AllWithPayload
    /\ Len(tcp.got) = 2
    /\ tcp.got = SubSeq(tcp.frames, 1, 2)
    /\ tcp.out.retval = 0
    /\ tcp.plans = <<1, 1>>

\* Every frame the peer has sent declares at least the header size.
AllWellFormed ==
    /\ ~tcp.cut
    /\ \A i \in DOMAIN tcp.frames : OfpLength(tcp.frames[i]) >= OFP_HEADER_SIZE

\* C19: a well-formed frame that consists of its header is delivered: the
\* call of tcp_recv during which the rest of its header arrives returns 0
\* with a buffer of exactly the header.
C19_HeaderOnlyDelivered ==
    [][(/\ TcpRecvStep
        /\ AllWellFormed
        /\ Len(tcp.got) < Len(tcp.frames)
        /\ OfpLength(tcp.frames[Len(tcp.got) + 1]) = OFP_HEADER_SIZE
        /\ Flatten(tcp.got) \o Buffered(tcp.rxbuf) \o tcp.rest = Flatten(tcp.frames)
        /\ \A k \in DOMAIN tcp'.plans : tcp'.plans[k] >= OFP_HEADER_SIZE)
       => /\ tcp'.out.retval = 0
          /\ tcp'.out.bufferp = <<tcp.frames[Len(tcp.got) + 1]>>
          /\ Len(tcp'.out.bufferp[1]) = OFP_HEADER_SIZE]_vars

\* rxbuf holds a whole header whose length field is below the header size.
ShortHeaderBuffered(rxbuf) ==
    /\ Len(Buffered(rxbuf)) >= OFP_HEADER_SIZE
    /\ OfpLength(Buffered(rxbuf)) < OFP_HEADER_SIZE

\* C20: the call of tcp_recv after which rxbuf holds a header with a length
\* below the header size has returned EPROTO and no buffer; and every call
\* that finds such a header in rxbuf returns EPROTO without a read(),
\* returns no buffer, and leaves rxbuf and the stream as they were, so that
\* every later call does the same.
C20_ShortLengthEproto ==
    /\ [](ShortHeaderBuffered(tcp.rxbuf)
            => tcp.out.retval = EPROTO /\ tcp.out.bufferp = NoBuf)
    /\ [][(TcpRecvStep /\ ShortHeaderBuffered(tcp.rxbuf))
          => /\ tcp'.out.retval = EPROTO
             /\ tcp'.out.nreads = 0
             /\ tcp'.out.bufferp = NoBuf
             /\ tcp'.got = tcp.got
             /\ tcp'.rxbuf = tcp.rxbuf
             /\ tcp'.rest = tcp.rest]_vars

\* A later call found the short header in rxbuf, while more bytes were
\* there to read.
C20_Witness ==
    /\ tcp.calls
    /\ ShortHeaderBuffered(tcp.rxbuf)
    /\ tcp.out.retval = EPROTO
    /\ tcp.out.nreads = 0
    /\ tcp.rest # <<>>

\* C21: when the peer has closed the stream and all it sent has been read,
\* tcp_recv returns EOF if rxbuf holds no byte and EPROTO if it holds part
\* of a frame; and tcp_recv returns EOF only with an empty rxbuf, before and
\* after the call.
C21_EofOrEproto ==
    [][TcpRecvStep
       => /\ (tcp.closed /\ tcp.rest = <<>>
                /\ \A k \in DOMAIN tcp'.plans : tcp'.plans[k] >= 0)
             => tcp'.out.retval
                   = (IF Buffered(tcp.rxbuf) = <<>> THEN EOF ELSE EPROTO)
          /\ tcp'.out.retval = EOF
             => /\ Buffered(tcp.rxbuf) = <<>>
                /\ Buffered(tcp'.rxbuf) = <<>>
                /\ tcp.closed]_vars

\* The peer closed within a frame, of which the part sent is in rxbuf, and
\* tcp_recv returned EPROTO.
C21_Witness ==
    /\ tcp.calls
    /\ tcp.cut
    /\ tcp.rest = <<>>
    /\ Len(Buffered(tcp.rxbuf)) = OFP_HEADER_SIZE + 1
    /\ tcp.out.retval = EPROTO
    /\ tcp.out.nreads = 1

\* A step that is a call of tcp_send.
TcpSendStep == vc' # vc /\ vc'.out.op = "send"

\* The bytes of the staged message.
Staged == IF vc.txbuf = NoBuf THEN <<>> ELSE vc.txbuf[1]

\* b is what is left of message m after some of its bytes were written.
IsTailOf(b, m) ==
    /\ Len(b) > 0
    /\ Len(b) <= Len(m)
    /\ b = SubSeq(m, Len(m) - Len(b) + 1, Len(m))

\* C22: while a message is staged, tcp_send returns EAGAIN without a
\* write(), leaves txbuf and the bytes on the socket as they were and the
\* buffer it was given with its caller, unchanged; and txbuf holds at most
\* one message: what is left of the message accepted last.
C22_StagedRejects ==
    /\ [](vc.txbuf # NoBuf
            => /\ Len(vc.txbuf) = 1
               /\ vc.accepted # <<>>
               /\ IsTailOf(vc.txbuf[1], vc.accepted[Len(vc.accepted)]))
    /\ [][TcpSendStep /\ vc.txbuf # NoBuf
          => /\ vc'.out.retval = EAGAIN
             /\ vc'.out.nwrites = 0
             /\ vc'.out.written = <<>>
             /\ vc'.wire = vc.wire
             /\ vc'.txbuf = vc.txbuf
             /\ vc'.accepted = vc.accepted
             /\ vc'.out.buffer = <<vc'.given>>]_vars

\* tcp_send was given a message while part of another was staged, and the
\* socket had room.
C22_Witness ==
    /\ vc.out.op = "send"
    /\ vc.out.retval = EAGAIN
    /\ vc.plan > 0
    /\ vc.txbuf # NoBuf
    /\ vc.given # vc.accepted[Len(vc.accepted)]

\* C23: with no message staged, when the write() of tcp_send accepts k of
\* the n bytes of the message, 0 <= k < n, or fails with EAGAIN, tcp_send
\* returns 0, takes the buffer and stages the n - k bytes not written; a
\* call that returns an error has written nothing and returns the errno of
\* a write() that failed.
C23_ShortWriteStaged ==
    [][TcpSendStep /\ vc.txbuf = NoBuf
       => /\ (vc'.plan = -EAGAIN
                \/ (vc'.plan >= 0 /\ vc'.plan < Len(vc'.given)))
             => /\ vc'.out.retval = 0
                /\ vc'.out.buffer = NoBuf
                /\ vc'.out.nwrites = 1
                /\ vc'.txbuf
                     = <<SubSeq(vc'.given,
                                (IF vc'.plan > 0 THEN vc'.plan ELSE 0) + 1,
                                Len(vc'.given))>>
                /\ vc'.wire \o vc'.txbuf[1] = vc.wire \o vc'.given
          /\ vc'.out.retval # 0
             => /\ vc'.plan < 0
                /\ vc'.out.retval = -vc'.plan
                /\ vc'.out.retval # EAGAIN
                /\ vc'.wire = vc.wire]_vars

\* The write() of tcp_send accepted one byte of three, and two are staged.
C23_Witness ==
    /\ vc.out.op = "send"
    /\ vc.out.retval = 0
    /\ vc.plan = 1
    /\ Len(vc.given) = 3
    /\ Len(Staged) = 2
    /\ Len(vc.out.written) = 1

\* C24: the bytes the socket has accepted, followed by the staged bytes,
\* are the messages for which tcp_send returned 0, in call order; so the
\* bytes on the socket are a prefix of these messages, and all of them
\* when nothing is staged.
C24_WireInOrder == vc.wire \o Staged = Flatten(vc.accepted)

\* Two messages were accepted, both after a short write, and tcp_postpoll
\* has written the last staged byte.
C24_Witness ==
    /\ Len(vc.accepted) = 2
    /\ vc.txbuf = NoBuf
    /\ vc.out.op = "postpoll"
    /\ Len(vc.out.written) = 1
    /\ vc.wire = Flatten(vc.accepted)

\* C25: a system call interrupted by a signal is retried: no call on a
\* Netlink socket and no tcp_recv or tcp_send returns EINTR, and
\* tcp_postpoll does not report an interrupted write() as POLLERR.
C25_EintrRetried ==
    /\ last.retval # EINTR
    /\ tcp.out.retval # EINTR
    /\ vc.out.retval # EINTR
    /\ ~(vc.out.op = "postpoll" /\ vc.plan = -EINTR
           /\ "POLLERR" \in vc.out.revents)

\* C26: after tcp_close neither the rxbuf nor the txbuf the vconn owned
\* remains allocated.
C26_CloseReleases ==
    ~vc.open => tcp.rxbuf = NoBuf /\ vc.txbuf = NoBuf

\* The termination signals are blocked.
FatalBlocked == fatal_signals \subseteq sig.mask

\* C27 as stated: in a run in which no unblock precedes its block, the
\* termination signals are blocked exactly while there have been more
\* block calls than unblock calls.
C27_BlockedExactly ==
    sig.started /\ ~sig.aborted
       => (FatalBlocked <=> sig.blocks > sig.unblocks)

\* C27, amended: in a run in which no unblock precedes its block, the
\* nesting level is the number of block calls less the number of unblock
\* calls; while it is positive the termination signals are blocked, on top
\* of the mask the outermost block found and saved; when it is zero the mask
\* is the one the process had before the outermost block; and only the
\* unblock that brings the level to zero changes the mask.
C27_Nesting ==
    /\ [](sig.started /\ ~sig.aborted
            => /\ sig.block_level = sig.blocks - sig.unblocks
               /\ sig.blocks > sig.unblocks
                  => /\ FatalBlocked
                     /\ sig.saved_signal_mask = sig.entry
                     /\ sig.mask = sig.entry \cup fatal_signals
               /\ sig.blocks = sig.unblocks => sig.mask = sig.entry)
    /\ [][sig'.op = "unblock" /\ ~sig'.aborted /\ sig'.mask # sig.mask
          => /\ sig'.block_level = 0
             /\ sig'.mask = sig.saved_signal_mask]_vars

\* Three nested blocks and two unblocks in a process started with SIGINT
\* and SIGUSR1 blocked: the signals are still blocked.
C27_Witness ==
    /\ sig.op = "unblock"
    /\ sig.blocks = 3
    /\ sig.unblocks = 2
    /\ sig.entry = {"SIGINT", "SIGUSR1"}
    /\ FatalBlocked

\* The offsets in payload b, from offset o on, at which the attributes of
\* the message start: one starts wherever a byte is left, and the next
\* where the aligned length of the one before ends.
RECURSIVE AttrStarts(_, _, _)
AttrStarts(b, beyond, o) ==
    IF o >= Len(b) THEN {}
    ELSE IF U16At(b, beyond, o) < NLA_HDRLEN THEN {o}
    ELSE {o} \cup AttrStarts(b, beyond, o + NLA_ALIGN(U16At(b, beyond, o)))

\* The attributes of the parsed message.
ParsedStarts == AttrStarts(GenlPayload(parse.m), parse.beyond, 0)

\* The attributes of the parsed message whose nla_type is type.
Occurrences(type) ==
    {o \in ParsedStarts :
        U16At(GenlPayload(parse.m), parse.beyond, o + 2) = type}

\* C29: nl_policy_parse returns false for a message in which the aligned
\* total length NLA_ALIGN(nla_len) of some attribute exceeds the number of
\* bytes from the start of the attribute to the tail of the buffer.
C29_OverrunRejected ==
    (/\ parse.out # NoBuf
     /\ \E o \in ParsedStarts :
           /\ o + NLA_HDRLEN <= Len(GenlPayload(parse.m))
           /\ NLA_ALIGN(HostU16(SubSeq(GenlPayload(parse.m), o + 1, o + 2)))
                 > Len(GenlPayload(parse.m)) - o)
    => ~parse.out[1].ok

\* The slots of the policy under which the message was parsed that declare
\* an attribute.
DeclaredSlots == {i \in DOMAIN parse.policy : parse.policy[i].type # "NO_ATTR"}

\* The highest and the lowest of a set of offsets.
MaxOf(S) == CHOOSE x \in S : \A y \in S : y <= x
MinOf(S) == CHOOSE x \in S : \A y \in S : x <= y

\* C30 as stated: when a message that parses holds attributes of a declared
\* type, attrs[type] points at the first of them.
C30_FirstWins ==
    (parse.out # NoBuf /\ parse.out[1].ok)
    => \A i \in DeclaredSlots :
          Occurrences(i) # {}
          => parse.out[1].attrs[i] = <<MinOf(Occurrences(i))>>

\* C30, amended: when a message that parses holds attributes of a declared
\* type, attrs[type] points at the last of them, and attrs[type] is NULL for
\* a declared type of which it holds none; the count of missing required
\* attributes goes down once for each declared type that is not optional
\* and occurs, at its first occurrence, however many attributes of the type
\* there are: in a message that parses, as many such types occur as the
\* policy has required slots, and the assertion on the count fails only
\* under a policy with a flag that is not optional.
C30_LastWins ==
    /\ (parse.out # NoBuf /\ parse.out[1].ok)
       => /\ \A i \in DeclaredSlots :
                /\ Occurrences(i) # {}
                   => parse.out[1].attrs[i] = <<MaxOf(Occurrences(i))>>
                /\ Occurrences(i) = {} => parse.out[1].attrs[i] = NoBuf
          /\ Cardinality({i \in DeclaredSlots :
                             ~parse.policy[i].optional /\ Occurrences(i) # {}})
                = Cardinality(RequiredSlots(parse.policy))
    /\ (parse.out # NoBuf /\ parse.out[1].aborted)
       => \E i \in DeclaredSlots \ RequiredSlots(parse.policy) :
             ~parse.policy[i].optional

\* Two attributes of type 1 were put, with different values, and the
\* message parsed under a policy that requires type 1.
C30_Witness ==
    /\ parse.out # NoBuf
    /\ parse.out[1].ok
    /\ Len(parse.puts) = 2
    /\ 1 \in RequiredSlots(parse.policy)
    /\ Cardinality(Occurrences(1)) = 2
    /\ nl_attr_get_unspec(GenlPayload(parse.m), MinOf(Occurrences(1)), 1)
          # nl_attr_get_unspec(GenlPayload(parse.m), MaxOf(Occurrences(1)), 1)

-----------------------------------------------------------------------------
(* Properties of the built messages, under SpecParse. *)

\* The offset in the payload at which the i-th attribute put starts: the
\* sum of the lengths of the attributes before it, each with its header and
\* rounded up to a multiple of 4.
RECURSIVE PutStart(_, _)
PutStart(puts, i) ==
    IF i = 1 THEN 0
    ELSE PutStart(puts, i - 1)
           + 4 * ((NLA_HDRLEN + Len(puts[i - 1].value) + 3) \div 4)

\* C31: in a buffer that got its nlmsghdr and genlmsghdr and then any
\* attributes from the put functions, the size is a multiple of 4, every
\* attribute starts, and its payload starts, at a multiple of 4, its
\* nla_len is 4 + the payload size and not rounded up, its nla_type and
\* payload are those put, the next attribute (or the tail) is at the aligned
\* offset, and every byte between a payload and the next attribute is zero.
C31_BuiltAligned ==
    (parse.puts # <<>> \/ parse.m.attrs = <<>>)
    => /\ parse.m.size % 4 = 0
       /\ parse.m.size
             = NLMSG_HDRLEN + GENL_HDRLEN
                 + PutStart(parse.puts, Len(parse.puts) + 1)
       /\ Len(GenlPayload(parse.m)) = PutStart(parse.puts, Len(parse.puts) + 1)
       /\ \A i \in DOMAIN parse.puts :
             LET o == PutStart(parse.puts, i)
                 next == PutStart(parse.puts, i + 1)
                 b == GenlPayload(parse.m)
                 size == Len(parse.puts[i].value)
             IN  /\ (NLMSG_HDRLEN + GENL_HDRLEN + o) % 4 = 0
                 /\ (NLMSG_HDRLEN + GENL_HDRLEN + o + NLA_HDRLEN) % 4 = 0
                 /\ HostU16(SubSeq(b, o + 1, o + 2)) = NLA_HDRLEN + size
                 /\ HostU16(SubSeq(b, o + 3, o + 4)) = parse.puts[i].type
                 /\ SubSeq(b, o + NLA_HDRLEN + 1, o + NLA_HDRLEN + size)
                       = parse.puts[i].value
                 /\ next - (o + NLA_HDRLEN + size) \in 0..3
                 /\ \A k \in (o + NLA_HDRLEN + size + 1)..next : b[k] = 0

\* A string that needs two bytes of padding was put, and after it a u8,
\* which needs three.
C31_Witness ==
    /\ Len(parse.puts) = 2
    /\ parse.puts[1] = PutRec("STRING", 2, <<97, 0>>)
    /\ parse.puts[2].kind = "U8"
    /\ Len(GenlPayload(parse.m)) = 16

-----------------------------------------------------------------------------
(* Properties of nl_msg_nlmsgerr, under SpecNlmsgerr. *)

\* C32: nl_msg_nlmsgerr returns true exactly for messages of type
\* NLMSG_ERROR; the code it decodes is -error when the message holds the
\* error field and INT_MIN < error <= 0, and EPROTO when the field is
\* positive or INT_MIN or the message is too short to hold it; the code is
\* never negative.
C32_NlmsgerrCode ==
    dec.out # NoBuf
    => /\ dec.out[1].is_error <=> dec.m[1].nlmsg_type = NLMSG_ERROR
       /\ dec.out[1].is_error
          => /\ dec.out[1].code >= 0
             /\ (dec.m[1].size >= NLMSG_HDRLEN + NLMSGERR_SIZE
                   /\ dec.m[1].error > INT_MIN /\ dec.m[1].error <= 0)
                => dec.out[1].code + dec.m[1].error = 0
             /\ (dec.m[1].size < NLMSG_HDRLEN + NLMSGERR_SIZE
                   \/ dec.m[1].error > 0 \/ dec.m[1].error = INT_MIN)
                => dec.out[1].code = EPROTO

\* An error message with the greatest negative code that can be negated
\* was decoded.
C32_Witness ==
    /\ dec.out # NoBuf
    /\ dec.m[1].nlmsg_type = NLMSG_ERROR
    /\ dec.m[1].error = INT_MIN + 1
    /\ dec.m[1].size = NLMSG_HDRLEN + NLMSGERR_SIZE
    /\ dec.out[1].code > EPROTO

-----------------------------------------------------------------------------
(* Properties of the poll hooks of the TCP vconn, under SpecTcpSend. *)

\* C33: whenever a message is staged, tcp_prepoll puts POLLOUT into
\* pfd->events whatever the want-mask is; it adds POLLIN exactly when
\* WANT_RECV is set and POLLOUT exactly when WANT_SEND is set or a message
\* is staged, keeps the events that were there, and returns without asking
\* for an immediate wakeup.
C33_PrepollAsksPollout ==
    vc.out.op = "prepoll"
    => /\ vc.txbuf # NoBuf => "POLLOUT" \in vc.out.revents
       /\ "POLLIN" \in vc.out.revents
             <=> ("WANT_RECV" \in vc.want \/ "POLLIN" \in vc.events)
       /\ "POLLOUT" \in vc.out.revents
             <=> ("WANT_SEND" \in vc.want \/ vc.txbuf # NoBuf)
       /\ vc.events \subseteq vc.out.revents
       /\ vc.out.revents \subseteq vc.events \cup {"POLLIN", "POLLOUT"}

\* tcp_prepoll was called with an empty want-mask and no events while a
\* message was staged.
C33_Witness ==
    /\ vc.out.op = "prepoll"
    /\ vc.txbuf # NoBuf
    /\ vc.want = {}
    /\ vc.events = {}
    /\ vc.out.revents = {"POLLOUT"}

\* C38: after tcp_postpoll POLLOUT is in '*revents' only if no message is
\* staged; and a tcp_send made right after a tcp_postpoll that left
\* POLLOUT there does not return EAGAIN.
C38_PolloutMeansFree ==
    /\ []((vc.out.op = "postpoll" /\ "POLLOUT" \in vc.out.revents)
             => vc.txbuf = NoBuf)
    /\ [][(TcpSendStep /\ vc.out.op = "postpoll"
             /\ "POLLOUT" \in vc.out.revents)
          => vc'.out.retval # EAGAIN]_vars

\* tcp_postpoll left POLLOUT in '*revents' after it wrote the two staged
\* bytes, and the tcp_send that followed staged two bytes of its message.
C38_Witness ==
    /\ vc.out.op = "send"
    /\ vc.out.retval = 0
    /\ Len(vc.accepted) = 2
    /\ Len(vc.wire) = 4
    /\ Len(Staged) = 2
    /\ Len(vc.given) = 3

\* C39: when the caller's loop keeps running and the socket becomes
\* writable again and again, taking at least one byte at a write, a staged
\* message is eventually written completely and txbuf cleared; and with
\* txbuf clear, a tcp_send whose write() takes some bytes or none, or would
\* block, accepts the message.
C39_StagedFlushed ==
    /\ (vc.txbuf # NoBuf)
          ~> (vc.txbuf = NoBuf /\ vc.wire = Flatten(vc.accepted))
    /\ [][(TcpSendStep /\ vc.txbuf = NoBuf
             /\ (vc'.plan >= 0 \/ vc'.plan = -EAGAIN))
          => /\ vc'.out.retval = 0
             /\ vc'.accepted = Append(vc.accepted, vc'.given)]_vars

\* The loop, its caller wanting nothing, has written the last two bytes of
\* the three-byte message, the only one accepted.
C39_Witness ==
    /\ vc.out.op = "postpoll"
    /\ vc.want = {}
    /\ vc.txbuf = NoBuf
    /\ Len(vc.out.written) = 2
    /\ vc.accepted = << <<1, 2, 3>> >>
    /\ vc.wire = <<1, 2, 3>>

\* C36: the slots set in the bitmap are the slots of the live sockets, one
\* socket to a slot; a nl_sock_create that fails and a
\* nl_lookup_genl_family that returns leave the bitmap and the sockets as
\* they were; and nl_sock_destroy clears one bit, which was set: that of
\* the socket it destroys.
C36_BitmapIsLive ==
    /\ [](/\ avail_sockets = {SlotOfPid(s.pid) : s \in socks}
          /\ Cardinality(avail_sockets) = Cardinality(socks))
    /\ [][/\ (last'.op = "create" /\ last'.retval # 0)
             => (avail_sockets' = avail_sockets /\ socks' = socks)
          /\ last'.op = "lookup"
             => (avail_sockets' = avail_sockets /\ socks' = socks)
          /\ last'.op = "destroy"
             => \E s \in socks :
                   /\ socks' = socks \ {s}
                   /\ SlotOfPid(s.pid) \in avail_sockets
                   /\ avail_sockets' = avail_sockets \ {SlotOfPid(s.pid)}]_vars

\* The socket of slot 1 is live and slot 0 free again, the family has been
\* looked up, and a nl_sock_create has just failed at bind().
C36_Witness ==
    /\ last.op = "create"
    /\ last.fail = "bind"
    /\ last.retval # 0
    /\ number > 0
    /\ avail_sockets = {1}
    /\ Cardinality(socks) = 1

\* C37: the assertion n_required > 0 of nl_policy_parse never fails, and
\* n_required is decremented only for slots counted at the start: the slots
\* a parse has filled for which it decremented, those not optional, are
\* all required slots.
C37_AssertHolds ==
    parse.out # NoBuf
    => /\ ~parse.out[1].aborted
       /\ \A i \in DOMAIN parse.policy :
             (parse.out[1].attrs[i] # NoBuf /\ ~parse.policy[i].optional)
             => i \in RequiredSlots(parse.policy)

\* C35: with a fair kernel, a nl_sock_transact that has been called
\* returns.
C35_TransactReturns ==
    (tx.pc \in {"send", "recv"}) ~> (tx.pc = "done")

\* The call returns the reply after MaxEnobufs receives that failed with
\* ENOBUFS and MaxStray messages with another sequence number.
C35_Witness ==
    /\ tx.pc = "done"
    /\ tx.enobufs = MaxEnobufs
    /\ tx.stray = MaxStray
    /\ tx.retval = 0
    /\ tx.replyp # NoBuf
    /\ Len(tx.sent) = MaxEnobufs + 1

\* C34: signal_handler never runs between the fatal_signal_block() and the
\* fatal_signal_unblock() of fatal_signal_add_hook,
\* fatal_signal_add_file_to_unlink or fatal_signal_remove_file_to_unlink,
\* nor while the level is above zero: a termination signal that arrives
\* there stays pending; and when it runs, hooks[0 .. n_hooks - 1] are
\* written in full and files[0 .. n_files - 1] are valid strings.
C34_HooksConsistent ==
    /\ sig.seen # <<>>
       => /\ sig.seen[1].at \notin CriticalPcs
          /\ sig.seen[1].block_level = 0
          /\ sig.seen[1].hooks_written
          /\ sig.seen[1].files_valid
    /\ \A s \in sig.pending :
          (s.sig_nr \in fatal_signals /\ sig.pc \in CriticalPcs)
          => s.sig_nr \in sig.mask

\* SIGTERM arrived while the file list was being changed, with n_files
\* already counted up and the entry not yet stored, and signal_handler ran
\* after the fatal_signal_unblock(), finding two hooks and one file.
C34_Witness ==
    /\ sig.seen # <<>>
    /\ sig.seen[1].sig_nr = "SIGTERM"
    /\ sig.seen[1].arrived = "af_inc_first"
    /\ sig.seen[1].at = "idle"
    /\ sig.seen[1].n_hooks = 2
    /\ sig.seen[1].n_files = 1

\* C40: a tcp_open, ptcp_open or ptcp_accept that fails assigns no vconn
\* and leaves open the descriptors that were open before it, and no other:
\* every open descriptor is that of a vconn.
C40_FailedOpenClosesFd ==
    /\ (opn.op \in {"tcp_open", "ptcp_open", "ptcp_accept"} /\ opn.retval # 0)
       => opn.vconnp = <<>>
    /\ opn.fds = {v.fd : v \in opn.vconns}

\* The part of C40 that holds: a failed call assigns no vconn, and tcp_open
\* and ptcp_accept, with new_tcp_vconn, leave no descriptor behind.
FailedOpenNoVconn ==
    [][(opn'.op \in {"tcp_open", "ptcp_open", "ptcp_accept"}
          /\ opn'.retval # 0)
       => /\ opn'.vconnp = <<>>
          /\ opn'.vconns = opn.vconns
          /\ opn'.op # "ptcp_open" => opn'.fds = opn.fds]_vars

=============================================================================
